---- MODULE Spec2Model ----
(***************************************************************************)
(* Category resolution of the discovercars price tracker.                  *)
(*                                                                         *)
(*   step_3.py     writes, per category, the list of scored models         *)
(*   step_5.py     Policy A: best score, cheapest offer, one detail fetch  *)
(*   step_5_v2.py  Policy B: score threshold, walk of the offers by price  *)
(*                                                                         *)
(* Text is a sequence of character codes, so that strip(), lower(),        *)
(* upper(), the substring test and the string order are computed.          *)
(* A score is an integer number of thousandths (0.9 is 900).               *)
(* Python's None is the empty sequence, a present value x is <<x>>.        *)
(* gruppi_sipp.json is read-only: the category at position gi + 1 is      *)
(* drawn when the loop reaches it, among the lists step_3 can write.       *)
(***************************************************************************)
EXTENDS FiniteSets, Integers, Sequences, TLC

VARIABLES
    cars,        \* cars.json["cars"]: the offer list, read once
    pc,          \* position of the resolver: "group", "walk", "fetch", "done"
    gi,          \* number of categories of gruppi_sipp.json already taken
    g,           \* the category of the current iteration (g / grp)
    offers,      \* Policy B: the sorted offers of the current category
    oi,          \* Policy B: number of offers of the walk already taken
    best_model,  \* Policy A: the model chosen for the current category
    car_info,    \* Policy A: cars_by_model.get(best_model)
    page,        \* the browser page: what the last goto left
    selected,    \* selected_car_details of the current category
    output,      \* output / output_groups: one entry per finished category
    bucket,      \* Policy A: the items of buckets_final behind g["vehicles"]
    visited,     \* links on which goto was called for the current category
    policy,      \* the resolver that runs: "A" (step_5) or "B" (step_5_v2)
    fetched,     \* what each goto of the current category left, in order
    c_pc,        \* step_3: "manual", "auto", "merge", "out", "done", "failed"
    bi,          \* step_3: number of batches of the current pass already taken
    buckets,     \* classify_batches: the buckets of the current pass
    buckets_manual,  \* step_3: what the pass over the MANUAL groups returned
    buckets_auto,    \* step_3: what the pass over the AUTOMATIC groups returned
    buckets_final,   \* step_3: merge_vehicle_maps(buckets_manual, buckets_auto)
    groups_out,  \* step_3: the list written to gruppi_sipp.json
    returned,    \* per (code, model): the highest valid score the classifier returned
    a_pc,        \* gen_output_file: "period", "build", "done", "exit"
    pi,          \* gen_output_file: number of period folders already taken
    groups,      \* gen_output_file: the file of the period just read, None if missing
    price_map,   \* gen_output_file: the prices recorded for that period
    data_per_period, \* gen_output_file: days -> price_map, for the periods with a price
    all_groups,  \* gen_output_file: the codes with a price in some period
    df,          \* gen_output_file: the DataFrame written to the xlsx file
    x_pc,        \* extra periods: "start", "loop", "done", "error", "nocsv"
    builder,     \* extra periods: the function that builds the matrix
    prices,      \* extra periods: days -> code -> normalized price, as stored
    base_periods,    \* extra periods: the base periods given
    extra_periods,   \* extra periods: the extra periods given
    xdf,         \* extra periods: the DataFrame, a sequence of columns
    xi,          \* extra periods: number of extra periods already taken
    xindex,      \* extra periods: the index of the DataFrame (its rows)
    w_pc,        \* run_workflow: the call to make next, "done", "exit", "failed"
    periods,     \* run_workflow: the periods given
    wi,          \* run_workflow: number of periods whose steps are finished
    disk,        \* data/<location>/<days>/<pick_date>: the files of each period
    calls,       \* run_workflow: the calls made so far, in order
    wcols,       \* run_workflow: the columns of the matrix gen_output_file wrote
    s_pc,        \* offer scrape: "attempt", "page", "after", "done"
    variant,     \* offer scrape: "step_1_V2" or "step_1_async"
    attempt,     \* offer scrape: number of attempts started
    s_cars,      \* offer scrape: number of offers of the last result (cars)
    reloads,     \* offer scrape: reloads of the 'no result' page in this attempt
    outcomes,    \* offer scrape: how each attempt ended, in order
    written,     \* offer scrape: cars.json was written by this run
    r_pc,        \* price rule: "read", "done"
    r_groups,    \* price rule: the group_selected_details.json both builders read
    gen_rows,    \* price rule: code -> price recorded by gen_output_file
    ui_rows      \* price rule: code -> price recorded by build_csv_for_location

\* the state of a resolver run
resolverVars ==
    <<cars, pc, gi, g, offers, oi, best_model, car_info, page, selected,
      output, bucket, visited>>

\* what the actions of step_5 and step_5_v2 do not write
\* the state of step_3
classVars ==
    <<c_pc, bi, buckets, buckets_manual, buckets_auto, buckets_final,
      groups_out, returned>>

\* the state of gen_output_file
aggVars == <<a_pc, pi, groups, price_map, data_per_period, all_groups, df>>

\* the state of process_extra_periods and of the builders of workflow_ui
extraVars == <<x_pc, builder, prices, base_periods, extra_periods, xdf, xi, xindex>>

\* the state of run_workflow
workflowVars == <<w_pc, periods, wi, disk, calls, wcols>>

\* the state of the offer scrape with retry
scrapeVars == <<s_pc, variant, attempt, s_cars, reloads, outcomes, written>>

\* the state of the comparison of the two price rules
ruleVars == <<r_pc, r_groups, gen_rows, ui_rows>>

lateVars == <<workflowVars, scrapeVars, ruleVars>>

restVars == <<classVars, aggVars, extraVars, lateVars>>

vars == <<resolverVars, policy, fetched, restVars>>

(***************************************************************************)
(* Bounds of the model.                                                    *)
(***************************************************************************)
MaxOffers == 3

(***************************************************************************)
(* Text.                                                                   *)
(***************************************************************************)
None == << >>
Some(x) == <<x>>

Lower(s) == [i \in DOMAIN s |-> IF s[i] \in 65..90 THEN s[i] + 32 ELSE s[i]]
Upper(s) == [i \in DOMAIN s |-> IF s[i] \in 97..122 THEN s[i] - 32 ELSE s[i]]

IsSpace(c) == c \in {9, 10, 13, 32}

RECURSIVE LStrip(_)
LStrip(s) == IF s # << >> /\ IsSpace(Head(s)) THEN LStrip(Tail(s)) ELSE s

RECURSIVE RStrip(_)
RStrip(s) ==
    IF s # << >> /\ IsSpace(s[Len(s)]) THEN RStrip(SubSeq(s, 1, Len(s) - 1))
    ELSE s

Strip(s) == RStrip(LStrip(s))

\* a in b, for two str
IsSubstr(a, b) ==
    \E i \in 0..(Len(b) - Len(a)) : SubSeq(b, i + 1, i + Len(a)) = a

\* s < t, for two str: the order of the code points
StrLess(s, t) ==
    \/ /\ Len(s) < Len(t)
       /\ SubSeq(t, 1, Len(s)) = s
    \/ \E i \in 1..Len(s) :
          /\ i <= Len(t)
          /\ SubSeq(s, 1, i - 1) = SubSeq(t, 1, i - 1)
          /\ s[i] < t[i]

\* list.sort / sorted: stable; less[i][j] tells that the key of s[i] is
\* lower than the key of s[j]
StableSort(s, less) ==
    LET n == Len(s)
        rank(i) ==
            1 + Cardinality({j \in 1..n :
                    \/ less[j][i]
                    \/ (~less[i][j] /\ j < i)})
    IN  [k \in 1..n |-> s[CHOOSE i \in 1..n : rank(i) = k]]

RECURSIVE Concat(_)
Concat(ss) == IF ss = << >> THEN << >> ELSE Head(ss) \o Concat(Tail(ss))

SeqsUpTo(S, n) == UNION {[1..k -> S] : k \in 0..n}

(***************************************************************************)
(* The data of one run.                                                    *)
(***************************************************************************)
str_a == <<97>>
str_B == <<66>>
str_MANUAL == <<77, 65, 78, 85, 65, 76>>
str_Manual == <<77, 97, 110, 117, 97, 108>>
str_Automatic == <<65, 117, 116, 111, 109, 97, 116, 105, 99>>
str_SicilyByCar == <<83, 105, 99, 105, 108, 121, 32, 66, 121, 32, 67, 97, 114>>
str_Hertz == <<72, 101, 114, 116, 122>>

CarNames == {str_a, str_B}
RawScores == {890, 896, 904}

\* (name, price_eur) of the offers a scrape can return
OfferKinds ==
    {<<str_a, None>>, <<str_a, Some(40)>>, <<str_a, Some(50)>>,
     <<str_B, Some(40)>>}

\* an offer of cars.json; its link is its position in the list
Offer(i, name, price) == [name |-> name, link |-> i, price_eur |-> price]

CarLists ==
    {[i \in DOMAIN s |-> Offer(i, s[i][1], s[i][2])] :
        s \in SeqsUpTo(OfferKinds, MaxOffers)}

\* what parse_car_page returns, as far as the resolver reads it
Details ==
    {[supplier_name |-> str_SicilyByCar, transmission |-> Some(str_Manual)],
     [supplier_name |-> str_Hertz, transmission |-> Some(str_Manual)],
     [supplier_name |-> str_Hertz, transmission |-> Some(str_Automatic)],
     [supplier_name |-> str_Hertz, transmission |-> None]}

NoDetails == [supplier_name |-> << >>, transmission |-> None]

\* what page.goto leaves: a timeout, a /search/ page, a page without
\* .car-name, or the page of a vehicle
Pages ==
    {[status |-> st, details |-> NoDetails] :
        st \in {"timeout", "search", "nomarker"}}
    \cup {[status |-> "car", details |-> d] : d \in Details}

BlankPage == [status |-> "blank", details |-> NoDetails]

(***************************************************************************)
(* step_3: the vehicles list written for a category.  buckets_final[code]  *)
(* is a dict, here the sequence of its (model, score) items.               *)
(***************************************************************************)
\* round(s, 2) of a score in thousandths that is not an exact half
Round2(s) == ((s + 5) \div 10) * 10

Buckets ==
    {b \in SeqsUpTo(CarNames \X RawScores, Cardinality(CarNames)) :
        \A i, j \in DOMAIN b : i # j => b[i][1] # b[j][1]}

\* a comparison of the names without lower()
ItemLess_CaseSensitive(x, y) ==
    \/ -x[2] < -y[2]
    \/ (x[2] = y[2] /\ StrLess(x[1], y[1]))

ItemLess(x, y) ==
    \/ -x[2] < -y[2]
    \/ (x[2] = y[2] /\ StrLess(Lower(x[1]), Lower(y[1])))

VehiclesList(b) ==
    LET srt == StableSort(b, [i \in DOMAIN b |-> [j \in DOMAIN b |->
                                ItemLess(b[i], b[j])]])
    IN  [i \in DOMAIN srt |-> [model |-> srt[i][1], score |-> Round2(srt[i][2])]]

\* gruppi_sipp_base.json: the catalog, one category that declares a
\* transmission and one that declares none
Catalog ==
    <<[sipp_code |-> 1, transmission |-> str_MANUAL],
      [sipp_code |-> 2, transmission |-> << >>]>>

NumGroups == Len(Catalog)

\* the category step_3 writes at position i of gruppi_sipp.json when
\* buckets_final holds the items b for it
Group(i, b) ==
    [sipp_code |-> Catalog[i].sipp_code,
     transmission |-> Catalog[i].transmission,
     vehicles |-> VehiclesList(b)]

Groups(i) == {Group(i, b) : b \in Buckets}

NoGroup == [sipp_code |-> 0, transmission |-> << >>, vehicles |-> << >>]

(***************************************************************************)
(* step_3: the classification in two passes and the merge.  A dict is the  *)
(* sequence of its (key, value) items, in insertion order.                 *)
(***************************************************************************)
BATCH_SIZE == 15
NumCarNames == 16

\* car_names.json: "a", "b", ...
CarNamesFile == [i \in 1..NumCarNames |-> <<96 + i>>]

str_e == <<101>>
str_E == <<69>>
str_F == <<70>>
str_G == <<71>>
str_X == <<88>>
str_z == <<122>>
str_AUTOMATIC == Upper(str_Automatic)

\* gruppi_sipp_base.json as step_3 reads it: the code "e" under MANUAL, the
\* codes "F" and "E" under Automatic, the code "G" without transmission
RawGroups ==
    <<[sipp_code |-> str_e, transmission |-> str_MANUAL],
      [sipp_code |-> str_F, transmission |-> str_Automatic],
      [sipp_code |-> str_E, transmission |-> str_Automatic],
      [sipp_code |-> str_G, transmission |-> << >>]>>

manual_groups == SelectSeq(RawGroups, LAMBDA grp : Upper(grp.transmission) = str_MANUAL)
automatic_groups ==
    SelectSeq(RawGroups, LAMBDA grp : Upper(grp.transmission) = str_AUTOMATIC)

\* chunked(car_names, BATCH_SIZE): the number of batches and the k-th batch
NumBatches == (Len(CarNamesFile) + BATCH_SIZE - 1) \div BATCH_SIZE

Batch(k) ==
    SubSeq(CarNamesFile, (k - 1) * BATCH_SIZE + 1,
           IF k * BATCH_SIZE < Len(CarNamesFile) THEN k * BATCH_SIZE
           ELSE Len(CarNamesFile))

\* the JSON values of an item of the response
JAbsent == [ty |-> "absent", v |-> 0]
JStr(t) == [ty |-> "str", v |-> t]
JNum(n) == [ty |-> "num", v |-> n]

Item(m, c, scr) == [ty |-> "dict", model |-> m, sipp_code |-> c, score |-> scr]
NonRecord == [ty |-> "str", model |-> JAbsent, sipp_code |-> JAbsent, score |-> JAbsent]

\* the items the classifier may put in its answer to a batch
ItemKinds(batch) ==
    {Item(JStr(batch[1]), JStr(str_e), JNum(300)),
     Item(JStr(batch[1]), JStr(str_E), JNum(950)),
     Item(JStr(batch[1]), JStr(str_E), JNum(0)),
     Item(JStr(batch[1]), JStr(str_F), JNum(1500)),
     Item(JStr(batch[1]), JStr(str_X), JNum(950)),
     Item(JStr(str_z), JStr(str_E), JNum(950)),
     NonRecord,
     Item(JAbsent, JStr(str_E), JNum(950)),
     Item(JStr(batch[1]), JAbsent, JNum(950)),
     Item(JStr(batch[1]), JStr(str_E), JAbsent),
     Item(JStr(batch[1]), JStr(str_E), JStr(str_X)),
     Item(JStr(batch[1]), JNum(5), JNum(950))}

MaxItems == 2

\* what safe_json makes of the answer: a list of items, or an exception
\* when the text is neither JSON nor a Python literal
Responses(batch) ==
    {[parsed |-> FALSE, items |-> << >>]}
    \cup {[parsed |-> TRUE, items |-> its] : its \in SeqsUpTo(ItemKinds(batch), MaxItems)}

\* d.get(k, dflt) and d[k] = v
DictGet(d, k, dflt) ==
    IF \E i \in DOMAIN d : d[i][1] = k
    THEN d[CHOOSE i \in DOMAIN d : d[i][1] = k][2]
    ELSE dflt

DictPut(d, k, v) ==
    IF \E i \in DOMAIN d : d[i][1] = k
    THEN [i \in DOMAIN d |-> IF d[i][1] = k THEN <<k, v>> ELSE d[i]]
    ELSE Append(d, <<k, v>>)

\* the buckets of a pass opened for every group of the catalog
PassBuckets_AllGroups(groups_subset) ==
    [code \in {Upper(RawGroups[i].sipp_code) : i \in DOMAIN RawGroups} |-> << >>]

\* {g["sipp_code"].upper(): {} for g in groups_subset}
PassBuckets(groups_subset) ==
    [code \in {Upper(groups_subset[i].sipp_code) : i \in DOMAIN groups_subset}
        |-> << >>]

\* itm.get("sipp_code", "").upper() raises when the value is not a str
ItemRaises(itm) ==
    itm.ty = "dict" /\ itm.sipp_code.ty \notin {"absent", "str"}

ItemCode(itm) ==
    IF itm.sipp_code.ty = "str" THEN Upper(itm.sipp_code.v) ELSE << >>

\* mdl in batch and code in buckets and isinstance(scr, (int, float))
ItemOk(itm, batch, bks) ==
    /\ itm.ty = "dict"
    /\ itm.model.ty = "str"
    /\ \E i \in DOMAIN batch : batch[i] = itm.model.v
    /\ ItemCode(itm) \in DOMAIN bks
    /\ itm.score.ty = "num"

\* the score of the item stored whatever score is there
ScoreWins_Last(scr, prev) == TRUE

\* scr > prev
ScoreWins(scr, prev) == scr > prev

StoreItem(bks, itm, batch) ==
    IF ItemOk(itm, batch, bks)
    THEN LET code == ItemCode(itm)
             prev == DictGet(bks[code], itm.model.v, 0)
         IN  IF ScoreWins(itm.score.v, prev)
             THEN [bks EXCEPT ![code] = DictPut(@, itm.model.v, itm.score.v)]
             ELSE bks
    ELSE bks

\* for itm in parsed
RECURSIVE StoreItems(_, _, _)
StoreItems(bks, items, batch) ==
    IF items = << >> THEN bks
    ELSE StoreItems(StoreItem(bks, Head(items), batch), Tail(items), batch)

\* the answer makes classify_batches raise
ResponseRaises(r) ==
    \/ ~r.parsed
    \/ \E i \in DOMAIN r.items : ItemRaises(r.items[i])

Max2(a, b) == IF a >= b THEN a ELSE b

\* out[code][m] = max(out[code].get(m, 0.0), s) for the items of one code
RECURSIVE MergeModels(_, _)
MergeModels(out, models) ==
    IF models = << >> THEN out
    ELSE LET m == Head(models)[1]
             sc == Head(models)[2]
         IN  MergeModels(DictPut(out, m, Max2(DictGet(out, m, 0), sc)),
                         Tail(models))

merge_vehicle_maps(base, add) ==
    [code \in DOMAIN base \cup DOMAIN add |->
        LET out == IF code \in DOMAIN base THEN base[code] ELSE << >>
        IN  IF code \in DOMAIN add THEN MergeModels(out, add[code]) ELSE out]

\* the groups offered to the classifier in a pass
PassGroups(pass) == IF pass = "manual" THEN manual_groups ELSE automatic_groups

\* the (code, model, score) of the items of an answer that name a model of
\* the batch, a code of the pass (case ignored) and a number as score
ValidItems(pass, k, items) ==
    {<<Upper(items[i].sipp_code.v), items[i].model.v, items[i].score.v>> :
        i \in {j \in DOMAIN items :
                /\ items[j].ty = "dict"
                /\ items[j].model.ty = "str"
                /\ items[j].model.v \in {Batch(k)[n] : n \in DOMAIN Batch(k)}
                /\ items[j].sipp_code.ty = "str"
                /\ \E n \in DOMAIN PassGroups(pass) :
                      Upper(PassGroups(pass)[n].sipp_code)
                          = Upper(items[j].sipp_code.v)
                /\ items[j].score.ty = "num"}}

\* the greatest element of a non-empty set of numbers
SetMax(S) == CHOOSE x \in S : \A y \in S : y <= x

\* the record of the highest valid score returned so far for each pair
Returned(ret, valid) ==
    LET pairs == DOMAIN ret \cup {<<t[1], t[2]>> : t \in valid}
    IN  [pr \in pairs |->
            SetMax((IF pr \in DOMAIN ret THEN {ret[pr]} ELSE {})
                   \cup {t[3] : t \in {u \in valid : <<u[1], u[2]>> = pr}})]

\* one iteration of the loop over the batches; the return of the pass after
\* the last batch, and the start of the next pass
C_Batch ==
    /\ c_pc \in {"manual", "auto"}
    /\ bi < NumBatches
    /\ \E r \in Responses(Batch(bi + 1)) :
          IF ResponseRaises(r)
          THEN /\ c_pc' = "failed"
               /\ UNCHANGED <<bi, buckets, buckets_manual, buckets_auto, returned>>
          ELSE LET bks == StoreItems(buckets, r.items, Batch(bi + 1))
               IN  /\ returned' = Returned(returned, ValidItems(c_pc, bi + 1, r.items))
                   /\ IF bi + 1 < NumBatches
                      THEN /\ bi' = bi + 1
                           /\ buckets' = bks
                           /\ UNCHANGED <<c_pc, buckets_manual, buckets_auto>>
                      ELSE IF c_pc = "manual"
                      THEN /\ buckets_manual' = bks
                           /\ c_pc' = "auto"
                           /\ bi' = 0
                           /\ buckets' = PassBuckets(automatic_groups)
                           /\ UNCHANGED buckets_auto
                      ELSE /\ buckets_auto' = bks
                           /\ c_pc' = "merge"
                           /\ bi' = bi + 1
                           /\ buckets' = bks
                           /\ UNCHANGED buckets_manual
    /\ UNCHANGED <<buckets_final, groups_out>>

\* buckets_final = merge_vehicle_maps(buckets_manual, buckets_auto)
C_Merge ==
    /\ c_pc = "merge"
    /\ buckets_final' = merge_vehicle_maps(buckets_manual, buckets_auto)
    /\ c_pc' = "out"
    /\ UNCHANGED <<bi, buckets, buckets_manual, buckets_auto, groups_out, returned>>

\* the list groups_out and its write to gruppi_sipp.json
C_Write ==
    /\ c_pc = "out"
    /\ groups_out' =
          [i \in DOMAIN RawGroups |->
              LET code == Upper(RawGroups[i].sipp_code)
              IN  [sipp_code |-> RawGroups[i].sipp_code,
                   transmission |-> RawGroups[i].transmission,
                   vehicles |-> VehiclesList(IF code \in DOMAIN buckets_final
                                             THEN buckets_final[code]
                                             ELSE << >>)]]
    /\ c_pc' = "done"
    /\ UNCHANGED <<bi, buckets, buckets_manual, buckets_auto, buckets_final, returned>>

(***************************************************************************)
(* gen_output_file: the prices of the periods and the matrix.  An amount   *)
(* is an integer number of cents.                                          *)
(***************************************************************************)
\* BROKER_FEE, in hundredths
BROKER_FEE == 30

\* the period folders of the location, sorted
PeriodDirs == <<3, 7>>

\* pay_now and pay_on_arrival of a selection: absent (None), 0.00, 0.50,
\* 100.00, 100.01, 101.00
PayNows == {None, Some(0), Some(50), Some(10000), Some(10001)}
PayOnArrivals == {None, Some(0), Some(50), Some(10100)}

\* selected_car_details as far as the aggregators read it, None for null
DetKinds ==
    {None} \cup {Some([pay_now |-> pn, pay_on_arrival |-> poa]) :
                    pn \in PayNows, poa \in PayOnArrivals}

\* a group_selected_details.json: one entry per category of the catalog
GroupFiles ==
    {[i \in DOMAIN Catalog |->
        [sipp_code |-> Catalog[i].sipp_code, selected_car_details |-> d[i]]] :
            d \in [DOMAIN Catalog -> DetKinds]}

\* round(x, 2) of an amount x given in hundredths of a cent, no exact half
RoundCents(x) == (x + 50) \div 100

\* the price of lines 84-93 without the clamp at zero
FinalPrice_NoClamp(det) ==
    LET pay_now == det.pay_now
        pay_on_arrival == det.pay_on_arrival
        price == IF pay_on_arrival # None /\ pay_on_arrival[1] > 0
                 THEN Some(pay_on_arrival[1] * 100)
                 ELSE IF pay_now # None
                 THEN Some(pay_now[1] * (100 - BROKER_FEE))
                 ELSE None
    IN  IF price # None
        THEN Some(RoundCents(price[1] - 10000))
        ELSE None

\* the price recorded for a selection, None when none is
FinalPrice(det) ==
    LET pay_now == det.pay_now
        pay_on_arrival == det.pay_on_arrival
        price == IF pay_on_arrival # None /\ pay_on_arrival[1] > 0
                 THEN Some(pay_on_arrival[1] * 100)
                 ELSE IF pay_now # None
                 THEN Some(pay_now[1] * (100 - BROKER_FEE))
                 ELSE None
    IN  IF price # None
        THEN LET rounded == RoundCents(price[1] - 10000)
             IN  Some(IF rounded < 0 THEN 0 ELSE rounded)
        ELSE None

\* for g in groups: price_map
RECURSIVE PriceMapOf(_, _)
PriceMapOf(pmap, gs) ==
    IF gs = << >> THEN pmap
    ELSE LET sipp == Head(gs).sipp_code
             det == Head(gs).selected_car_details
             price == IF sipp # 0 /\ det # None THEN FinalPrice(det[1]) ELSE None
         IN  PriceMapOf(IF price # None
                        THEN [c \in DOMAIN pmap \cup {sipp} |->
                                IF c = sipp THEN price[1] ELSE pmap[c]]
                        ELSE pmap,
                        Tail(gs))

\* sorted(S) for a set of integers
RECURSIVE SortedSeq(_)
SortedSeq(S) ==
    IF S = {} THEN << >>
    ELSE LET least == CHOOSE x \in S : \A y \in S : x <= y
         IN  <<least>> \o SortedSeq(S \ {least})

\* one iteration of the loop over period_dirs
G_Period ==
    /\ a_pc = "period"
    /\ pi < Len(PeriodDirs)
    /\ LET days == PeriodDirs[pi + 1] IN
       \E file \in {None} \cup {Some(f) : f \in GroupFiles} :
          LET pmap == IF file = None THEN << >> ELSE PriceMapOf(<< >>, file[1])
          IN  /\ groups' = file
              /\ price_map' = pmap
              /\ all_groups' = all_groups \cup DOMAIN pmap
              /\ data_per_period' =
                    IF DOMAIN pmap # {}
                    THEN [d \in DOMAIN data_per_period \cup {days} |->
                            IF d = days THEN pmap ELSE data_per_period[d]]
                    ELSE data_per_period
    /\ pi' = pi + 1
    /\ a_pc' = IF pi + 1 = Len(PeriodDirs) THEN "build" ELSE "period"
    /\ UNCHANGED df

\* the DataFrame with the rows of the last priced period only
G_Build_RowsOfLastPeriod ==
    /\ a_pc = "build"
    /\ IF DOMAIN data_per_period = {}
       THEN /\ a_pc' = "exit"
            /\ UNCHANGED df
       ELSE /\ a_pc' = "done"
            /\ LET last == SetMax(DOMAIN data_per_period)
                   rows == DOMAIN data_per_period[last]
               IN  df' = [index |-> SortedSeq(rows),
                          columns |-> SortedSeq(DOMAIN data_per_period),
                          cell |-> [k \in rows \X DOMAIN data_per_period |->
                                      IF k[1] \in DOMAIN data_per_period[k[2]]
                                      THEN Some(data_per_period[k[2]][k[1]])
                                      ELSE None]]
    /\ UNCHANGED <<pi, groups, price_map, data_per_period, all_groups>>

\* the DataFrame and its write, or the exit when no period has a price
G_Build ==
    /\ a_pc = "build"
    /\ IF DOMAIN data_per_period = {}
       THEN /\ a_pc' = "exit"
            /\ UNCHANGED df
       ELSE /\ a_pc' = "done"
            /\ df' = [index |-> SortedSeq(all_groups),
                      columns |-> SortedSeq(DOMAIN data_per_period),
                      cell |-> [k \in all_groups \X DOMAIN data_per_period |->
                                  IF k[1] \in DOMAIN data_per_period[k[2]]
                                  THEN Some(data_per_period[k[2]][k[1]])
                                  ELSE None]]
    /\ UNCHANGED <<pi, groups, price_map, data_per_period, all_groups>>

(***************************************************************************)
(* The extra periods: process_extra_periods and the builders of            *)
(* workflow_ui.  A cell is None (NaN, blank) or Some(<<n, d>>), the amount *)
(* of n / d cents; a column has its header (label), the period whose data  *)
(* it holds (of, which no header shows after a rename) and its cells.      *)
(***************************************************************************)
Builders ==
    {"process_extra_periods", "build_csv_for_location",
     "build_csv_for_location_", "build_csv_for_location__"}

SippCodes == {Catalog[i].sipp_code : i \in DOMAIN Catalog}

\* the periods of the runs, and the normalized price of each category for
\* each of them, in cents
AllPeriods == {2, 5, 7, 10}

StoredPrice ==
    (2 :> <<2050, 2500>>) @@ (5 :> <<4000, 4500>>) @@ (7 :> <<5000, 5900>>)
        @@ (10 :> <<6000, 7100>>)

\* the prices stored for a period: of both categories, or of the first only
ColumnKinds(d) ==
    {[c \in SippCodes |-> Some(<<StoredPrice[d][c], 1>>)],
     [c \in SippCodes |-> IF c = 1 THEN Some(<<StoredPrice[d][c], 1>>) ELSE None]}

\* the periods that have a group_selected_details.json, with their prices
PriceTables ==
    {t \in UNION {[D -> UNION {ColumnKinds(d) : d \in AllPeriods}] :
                    D \in SUBSET AllPeriods} :
        \A d \in DOMAIN t : t[d] \in ColumnKinds(d)}

\* the lists of periods given: base periods among 5 and 7, extra periods
\* among 2 and 10, in either order
BaseLists == {<< >>, <<5>>, <<7>>, <<5, 7>>, <<7, 5>>}
ExtraLists == {<< >>, <<2>>, <<10>>, <<2, 10>>, <<10, 2>>}

DaysLabel(n) == [kind |-> "days", days |-> n]
TextLabel(t) == [kind |-> t, days |-> 0]

BlankCells == [c \in SippCodes |-> None]

\* the same columns from the longest period to the shortest
Frame_Descending(tbl, ps) ==
    LET srt == SortedSeq(ps)
        n == Len(srt)
    IN  [i \in DOMAIN srt |->
            [label |-> DaysLabel(srt[n + 1 - i]), of |-> srt[n + 1 - i],
             cells |-> IF srt[n + 1 - i] \in DOMAIN tbl THEN tbl[srt[n + 1 - i]]
                       ELSE BlankCells]]

\* pd.DataFrame(rows).T.reindex(columns=sorted(ps)): one column per period
\* of ps, blank where nothing is stored
Frame(tbl, ps) ==
    LET srt == SortedSeq(ps)
    IN  [i \in DOMAIN srt |->
            [label |-> DaysLabel(srt[i]), of |-> srt[i],
             cells |-> IF srt[i] \in DOMAIN tbl THEN tbl[srt[i]] ELSE BlankCells]]

\* rows is empty: no category has a price in the periods ps
NoRows(tbl, ps) ==
    \A d \in ps \cap DOMAIN tbl : \A c \in SippCodes : tbl[d][c] = None

\* n in df.columns, and the place of df[n]
HasCol(frame, n) == \E i \in DOMAIN frame : frame[i].label = DaysLabel(n)

ColIndex(frame, n) ==
    CHOOSE i \in DOMAIN frame :
        /\ frame[i].label = DaysLabel(n)
        /\ \A j \in 1..(i - 1) : frame[j].label # DaysLabel(n)

\* (a - b) / k of two cells
CellMarginal(a, b, k) ==
    IF a = None \/ b = None THEN None
    ELSE Some(<<a[1][1] * b[1][2] - b[1][1] * a[1][2], a[1][2] * b[1][2] * k>>)

\* (df[ep] - df[prev]) / (ep - prev)
SerieExtra(frame, ep, prev) ==
    [c \in SippCodes |->
        CellMarginal(frame[ColIndex(frame, ep)].cells[c],
                     frame[ColIndex(frame, prev)].cells[c], ep - prev)]

\* df[n] = cells
SetCol(frame, n, cells) ==
    [i \in DOMAIN frame |->
        IF i = ColIndex(frame, n) THEN [frame[i] EXCEPT !.cells = cells]
        ELSE frame[i]]

\* df.rename(columns={n: text}) for every n of ns
RenameCols(frame, ns, text) ==
    [i \in DOMAIN frame |->
        IF frame[i].label.kind = "days" /\ frame[i].label.days \in ns
        THEN [frame[i] EXCEPT !.label = TextLabel(text)]
        ELSE frame[i]]

\* df.insert(pos, text, cells): the new column takes the place pos + 1
InsertCol(frame, pos, col) ==
    SubSeq(frame, 1, pos) \o <<col>> \o SubSeq(frame, pos + 1, Len(frame))

\* the smallest of the candidates
PrevOf_Smallest(cands) == CHOOSE x \in cands : \A y \in cands : x <= y

\* prev = max(prev_candidates)
PrevOf(cands) == SetMax(cands)

\* the periods the UI form hands over: base and extra merged, and the base
\* periods the builders derive from them
UiPeriods == {base_periods[i] : i \in DOMAIN base_periods}
                 \cup {extra_periods[i] : i \in DOMAIN extra_periods}

UiBasePeriods == UiPeriods \ {extra_periods[i] : i \in DOMAIN extra_periods}

\* the extra periods in the order the loop takes them
ExtraLoop ==
    IF builder = "process_extra_periods" THEN extra_periods
    ELSE IF builder = "build_csv_for_location" THEN << >>
    ELSE SortedSeq({extra_periods[i] : i \in DOMAIN extra_periods})

\* up to the loop over the extra periods: the CSV read, or the prices
\* collected and the DataFrame built
X_Load ==
    /\ x_pc = "start"
    /\ LET ps == IF builder \in {"process_extra_periods", "build_csv_for_location"}
                 THEN DOMAIN prices
                 ELSE UiPeriods
           cols == IF builder = "build_csv_for_location__" THEN UiBasePeriods
                   ELSE ps
       IN  IF NoRows(prices, ps)
           THEN /\ x_pc' = "nocsv"
                /\ UNCHANGED xdf
           ELSE /\ x_pc' = "loop"
                /\ xdf' = Frame(prices, cols)
    /\ UNCHANGED <<builder, prices, base_periods, extra_periods, xi>>

\* one iteration of the loop over the extra periods
X_Extra ==
    /\ x_pc = "loop"
    /\ xi < Len(ExtraLoop)
    /\ LET ep == ExtraLoop[xi + 1] IN
       IF builder = "process_extra_periods"
       THEN LET prev_candidates ==
                    {b \in {base_periods[i] : i \in DOMAIN base_periods} :
                        b < ep /\ HasCol(xdf, b)}
            IN  IF ~HasCol(xdf, ep) \/ prev_candidates = {}
                THEN /\ x_pc' = "error"
                     /\ UNCHANGED <<xdf, xi>>
                ELSE /\ xdf' = SetCol(xdf, ep,
                                      SerieExtra(xdf, ep, PrevOf(prev_candidates)))
                     /\ xi' = xi + 1
                     /\ UNCHANGED x_pc
       ELSE LET prev_candidates == {b \in UiBasePeriods : b < ep}
            IN  IF prev_candidates = {}
                THEN /\ xi' = xi + 1
                     /\ UNCHANGED <<x_pc, xdf>>
                ELSE IF builder = "build_csv_for_location_"
                THEN /\ xdf' = RenameCols(
                                  SetCol(xdf, ep,
                                         SerieExtra(xdf, ep, PrevOf(prev_candidates))),
                                  {ep}, "giorni extra")
                     /\ xi' = xi + 1
                     /\ UNCHANGED x_pc
                ELSE LET with_ep ==
                             IF HasCol(xdf, ep) THEN xdf
                             ELSE Append(xdf, [label |-> DaysLabel(ep), of |-> ep,
                                               cells |-> BlankCells])
                         serie_extra == SerieExtra(with_ep, ep, PrevOf(prev_candidates))
                     IN  IF \E i \in DOMAIN with_ep :
                                with_ep[i].label = TextLabel("giorni extra")
                         THEN /\ x_pc' = "error"
                              /\ xdf' = with_ep
                              /\ UNCHANGED xi
                         ELSE /\ xdf' = InsertCol(with_ep, ColIndex(with_ep, ep),
                                                  [label |-> TextLabel("giorni extra"),
                                                   of |-> ep, cells |-> serie_extra])
                              /\ xi' = xi + 1
                              /\ UNCHANGED x_pc
    /\ UNCHANGED <<builder, prices, base_periods, extra_periods>>

\* after the loop: the rename to "extra days" and the return, or the write
\* of the CSV
X_Finish ==
    /\ x_pc = "loop"
    /\ xi = Len(ExtraLoop)
    /\ x_pc' = "done"
    /\ xdf' = IF builder = "process_extra_periods"
              THEN RenameCols(xdf, {extra_periods[i] : i \in DOMAIN extra_periods},
                              "extra days")
              ELSE xdf
    /\ UNCHANGED <<builder, prices, base_periods, extra_periods, xi>>

\* process_extra_periods as a function of its lists: the loop over eps on
\* frame, None when it raises
RECURSIVE TransformExtras(_, _, _)
TransformExtras(frame, bps, eps) ==
    IF eps = << >> THEN Some(frame)
    ELSE LET ep == Head(eps)
             prev_candidates == {b \in bps : b < ep /\ HasCol(frame, b)}
         IN  IF ~HasCol(frame, ep) \/ prev_candidates = {}
             THEN None
             ELSE TransformExtras(
                      SetCol(frame, ep, SerieExtra(frame, ep, PrevOf(prev_candidates))),
                      bps, Tail(eps))

\* the DataFrame process_extra_periods returns for the CSV of tbl
ProcessExtraPeriods(tbl, bps, eps) ==
    LET df_out == TransformExtras(Frame(tbl, DOMAIN tbl),
                                  {bps[i] : i \in DOMAIN bps}, eps)
    IN  IF df_out = None THEN None
        ELSE Some(RenameCols(df_out[1], {eps[i] : i \in DOMAIN eps}, "extra days"))

(***************************************************************************)
(* The price rule of build_csv_for_location, next to gen_output_file's.    *)
(***************************************************************************)
\* x or 0, for an amount
OrZero(x) == IF x = None THEN 0 ELSE x[1]

\* the price build_csv_for_location records for selected_car_details,
\* None when it records none; det is None for null (det or {})
UiPrice(det) ==
    LET pay_arr == IF det = None THEN 0 ELSE OrZero(det[1].pay_on_arrival)
        pay_now == IF det = None THEN 0 ELSE OrZero(det[1].pay_now)
    IN  IF pay_arr # 0 THEN Some(RoundCents(pay_arr * 100 - 10000))
        ELSE IF pay_now # 0 THEN Some(RoundCents(pay_now * (100 - BROKER_FEE) - 10000))
        ELSE None

\* for g in groups: rows.setdefault(sipp, {})[days] = price, for one period
RECURSIVE UiRowsOf(_, _)
UiRowsOf(rows, gs) ==
    IF gs = << >> THEN rows
    ELSE LET sipp == Head(gs).sipp_code
             price == UiPrice(Head(gs).selected_car_details)
         IN  UiRowsOf(IF price # None
                      THEN [c \in DOMAIN rows \cup {sipp} |->
                              IF c = sipp THEN price[1] ELSE rows[c]]
                      ELSE rows,
                      Tail(gs))

\* gen_output_file reads the file of the period
R_Gen ==
    /\ r_pc = "read"
    /\ gen_rows = None
    /\ gen_rows' = Some(PriceMapOf(<< >>, r_groups))
    /\ r_pc' = IF ui_rows # None THEN "done" ELSE "read"
    /\ UNCHANGED <<r_groups, ui_rows>>

\* build_csv_for_location reads the file of the period
R_Ui ==
    /\ r_pc = "read"
    /\ ui_rows = None
    /\ ui_rows' = Some(UiRowsOf(<< >>, r_groups))
    /\ r_pc' = IF gen_rows # None THEN "done" ELSE "read"
    /\ UNCHANGED <<r_groups, gen_rows>>

(***************************************************************************)
(* run_workflow: the four steps of every period, then gen_output_file.     *)
(* A file of a period folder is None when absent, else Some(runs), the     *)
(* runs ("old": an earlier run, "new": this one) whose scrape its data     *)
(* come from; group_selected_details.json also tells whether some          *)
(* category has a price in it.                                             *)
(***************************************************************************)
\* the period folders data/<location>/<days> that a run can find or make
DiskPeriods == {3, 7}

\* --periods: one or more durations
PeriodLists == {<<3>>, <<7>>, <<3, 7>>, <<7, 3>>}

File(runs) == Some(runs)

SelectedFile(runs, priced) == Some([runs |-> runs, priced |-> priced])

\* what earlier runs can have left for a period: nothing; the bare folder
\* (no offer found); cars.json and car_names.json (step_3 raised); or all
\* four files, with or without a price
NoFolder ==
    [dir |-> FALSE, cars |-> None, car_names |-> None, gruppi_sipp |-> None,
     selected |-> None]

OldFolders ==
    {NoFolder,
     [NoFolder EXCEPT !.dir = TRUE],
     [NoFolder EXCEPT !.dir = TRUE, !.cars = File({"old"}),
                      !.car_names = File({"old"})]}
    \cup {[dir |-> TRUE, cars |-> File({"old"}), car_names |-> File({"old"}),
           gruppi_sipp |-> File({"old"}), selected |-> SelectedFile({"old"}, b)] :
             b \in BOOLEAN}

\* the call that follows step_5 of the period at position i of n
AfterStep5_GenEachPeriod(i, n) == "gen_output_file"

AfterStep5(i, n) == IF i < n THEN "step_1" ELSE "gen_output_file"

Call(name, days) == <<name, days>>

\* step_1(**settings): the folder is made, cars.json is written when the
\* scrape found offers
W_Step1 ==
    /\ w_pc = "step_1"
    /\ LET days == periods[wi + 1] IN
       /\ \E found \in BOOLEAN :
             disk' = [disk EXCEPT ![days].dir = TRUE,
                                  ![days].cars = IF found THEN File({"new"}) ELSE @]
       /\ calls' = Append(calls, Call("step_1", days))
    /\ w_pc' = "step_2"
    /\ UNCHANGED <<periods, wi, wcols>>

\* step_2(settings): sys.exit when cars.json is absent, else car_names.json
W_Step2 ==
    /\ w_pc = "step_2"
    /\ LET days == periods[wi + 1] IN
       /\ calls' = Append(calls, Call("step_2", days))
       /\ IF disk[days].cars = None
          THEN /\ w_pc' = "exit"
               /\ UNCHANGED disk
          ELSE /\ w_pc' = "step_3"
               /\ disk' = [disk EXCEPT ![days].car_names = File(disk[days].cars[1])]
    /\ UNCHANGED <<periods, wi, wcols>>

\* step_3(settings): sys.exit without gruppi_sipp_base.json, an exception
\* of the classification, or gruppi_sipp.json
W_Step3 ==
    /\ w_pc = "step_3"
    /\ LET days == periods[wi + 1] IN
       /\ calls' = Append(calls, Call("step_3", days))
       /\ \E outcome \in {"written", "raised", "no catalog"} :
             IF outcome = "written"
             THEN /\ w_pc' = "step_5"
                  /\ disk' = [disk EXCEPT
                                ![days].gruppi_sipp = File(disk[days].car_names[1])]
             ELSE /\ w_pc' = IF outcome = "raised" THEN "failed" ELSE "exit"
                  /\ UNCHANGED disk
    /\ UNCHANGED <<periods, wi, wcols>>

\* step_5(settings): group_selected_details.json from gruppi_sipp.json and
\* cars.json
W_Step5 ==
    /\ w_pc = "step_5"
    /\ LET days == periods[wi + 1] IN
       /\ calls' = Append(calls, Call("step_5", days))
       /\ \E priced \in BOOLEAN :
             disk' = [disk EXCEPT ![days].selected =
                        SelectedFile(disk[days].gruppi_sipp[1] \cup disk[days].cars[1],
                                     priced)]
    /\ wi' = wi + 1
    /\ w_pc' = AfterStep5(wi + 1, Len(periods))
    /\ UNCHANGED <<periods, wcols>>

\* gen_output_file(base_settings): one column per period folder whose
\* group_selected_details.json has a price
W_Gen ==
    /\ w_pc = "gen_output_file"
    /\ calls' = Append(calls, Call("gen_output_file", 0))
    /\ LET data_periods ==
               {d \in DiskPeriods : /\ disk[d].dir
                                    /\ disk[d].selected # None
                                    /\ disk[d].selected[1].priced}
           srt == SortedSeq(data_periods)
       IN  IF data_periods = {}
           THEN /\ w_pc' = "exit"
                /\ UNCHANGED wcols
           ELSE /\ w_pc' = "done"
                /\ wcols' = [i \in DOMAIN srt |->
                               [days |-> srt[i], runs |-> disk[srt[i]].selected[1].runs]]
    /\ UNCHANGED <<periods, wi, disk>>

(***************************************************************************)
(* The offer scrape with retry: step_1_V2.run and step_1_async.            *)
(***************************************************************************)
max_attempts == 5

\* for _ in range(5): the reloads of the 'no result' page
NoResultReloads == 5

Variants == {"step_1_V2", "step_1_async"}

\* where an attempt goes after the scrape returned n offers, without the
\* break
AfterScrape_NoBreak(n) == "loop"

\* if cars: break
AfterScrape(n) == IF n > 0 THEN "write" ELSE "loop"

\* while attempt < max_attempts: attempt += 1, and the page is opened and
\* searched, or an exception ends the attempt
S_Attempt ==
    /\ s_pc = "loop"
    /\ attempt < max_attempts
    /\ attempt' = attempt + 1
    /\ reloads' = 0
    /\ \E raised \in BOOLEAN :
          IF raised
          THEN /\ s_pc' = "loop"
               /\ outcomes' = Append(outcomes, "exception")
          ELSE /\ s_pc' = IF variant = "step_1_async" THEN "page" ELSE "scrape"
               /\ UNCHANGED outcomes
    /\ UNCHANGED <<variant, s_cars, written>>

\* step_1_async: one turn of the loop over the 'no result' page, or its
\* else branch when every turn found the page
S_NoResult ==
    /\ s_pc = "page"
    /\ IF reloads < NoResultReloads
       THEN \E visible \in BOOLEAN :
               IF visible
               THEN /\ reloads' = reloads + 1
                    /\ UNCHANGED <<s_pc, outcomes>>
               ELSE /\ s_pc' = "scrape"
                    /\ UNCHANGED <<reloads, outcomes>>
       ELSE /\ s_pc' = "loop"
            /\ outcomes' = Append(outcomes, "no result")
            /\ UNCHANGED reloads
    /\ UNCHANGED <<variant, attempt, s_cars, written>>

\* cars = _scrape_results(page), or an exception before it returns
S_Scrape ==
    /\ s_pc = "scrape"
    /\ \/ \E n \in 0..MaxOffers :
             /\ s_cars' = n
             /\ s_pc' = AfterScrape(n)
             /\ outcomes' = Append(outcomes, IF n > 0 THEN "offers" ELSE "empty")
       \/ /\ s_pc' = "loop"
          /\ outcomes' = Append(outcomes, "exception")
          /\ UNCHANGED s_cars
    /\ UNCHANGED <<variant, attempt, reloads, written>>

\* after the loop: if cars, cars.json is written
S_Write ==
    /\ \/ s_pc = "write"
       \/ s_pc = "loop" /\ attempt >= max_attempts
    /\ written' = (s_cars > 0)
    /\ s_pc' = "done"
    /\ UNCHANGED <<variant, attempt, s_cars, reloads, outcomes>>

(***************************************************************************)
(* step_5_v2: Policy B.                                                    *)
(***************************************************************************)
SOGLIA_SCORE == 900
EXCLUDE_SUPPLIERS == {str_SicilyByCar}
Inf == 1000000

PriceKey(e) == IF e.price_eur = None THEN Inf ELSE e.price_eur[1]

PriceLess(x, y) == PriceKey(x) < PriceKey(y)

\* lst.sort(key=price or inf)
SortByPrice(lst) ==
    StableSort(lst, [i \in DOMAIN lst |-> [j \in DOMAIN lst |->
                        PriceLess(lst[i], lst[j])]])

\* offers_by_model.get(mdl, []): the offers of a model, sorted by price
OffersByModel(cs, mdl) ==
    SortByPrice(SelectSeq(cs, LAMBDA e : Strip(e.name) = mdl))

\* a strict comparison with the threshold
CandidateModels_Strict(grp) ==
    LET ok == SelectSeq(grp.vehicles, LAMBDA v : v.score > SOGLIA_SCORE)
    IN  [i \in DOMAIN ok |-> ok[i].model]

CandidateModels(grp) ==
    LET ok == SelectSeq(grp.vehicles, LAMBDA v : v.score >= SOGLIA_SCORE)
    IN  [i \in DOMAIN ok |-> ok[i].model]

\* the lists of the models put end to end, without the sort that follows
GroupOffers_Unsorted(cs, grp) ==
    LET cm == CandidateModels(grp)
    IN  Concat([i \in DOMAIN cm |-> OffersByModel(cs, cm[i])])

GroupOffers(cs, grp) ==
    LET cm == CandidateModels(grp)
    IN  SortByPrice(Concat([i \in DOMAIN cm |-> OffersByModel(cs, cm[i])]))

SupplierOk(details) == Lower(details.supplier_name) \notin EXCLUDE_SUPPLIERS

\* the transmission of the category not looked at
TransmOk_Always(grp, details) == TRUE

TransmOk(grp, details) ==
    LET transm == Upper(IF details.transmission = None THEN << >>
                        ELSE details.transmission[1])
        group_transm == Upper(grp.transmission)
    IN  IF group_transm # << >> THEN IsSubstr(group_transm, transm) ELSE TRUE

\* the acceptance without the guard on .car-name
Accept_NoMarkerGuard(grp, p) ==
    /\ p.status \in {"car", "nomarker"}
    /\ SupplierOk(p.details)
    /\ TransmOk(grp, p.details)

\* a vehicle page (no /search/ redirect, .car-name present) that passes
\* supplier_ok and transm_ok
Accept(grp, p) ==
    /\ p.status = "car"
    /\ SupplierOk(p.details)
    /\ TransmOk(grp, p.details)

\* the selected_car_details record: link and price of the offer, then the
\* fields of the details (their "model" key replaces the offer's name, so
\* the link is what tells which offer was taken)
SelectedDetails(off, details) ==
    [link |-> off.link, price_eur |-> off.price_eur,
     supplier_name |-> details.supplier_name,
     transmission |-> details.transmission]

GroupOut(grp, sel) == [sipp_code |-> grp.sipp_code, selected_car_details |-> sel]

\* g_out built once before the loop: a category without offers is appended
\* with the selection the category before it left
B_Group_KeepSelected ==
    /\ pc = "group"
    /\ gi < NumGroups
    /\ \E grp \in Groups(gi + 1) :
          LET offs == IF CandidateModels(grp) = << >> THEN << >>
                      ELSE GroupOffers(cars, grp)
          IN  /\ g' = grp
              /\ offers' = offs
              /\ oi' = 0
              /\ visited' = << >>
              /\ IF offs = << >>
                 THEN /\ output' = Append(output, GroupOut(grp, selected))
                      /\ gi' = gi + 1
                      /\ pc' = "group"
                      /\ UNCHANGED selected
                 ELSE /\ pc' = "walk"
                      /\ selected' = None
                      /\ UNCHANGED <<output, gi>>
    /\ UNCHANGED <<cars, best_model, car_info, page, bucket>>

\* the head of `for g in gruppi`, up to the first goto
B_Group ==
    /\ pc = "group"
    /\ gi < NumGroups
    /\ \E grp \in Groups(gi + 1) :
          LET offs == IF CandidateModels(grp) = << >> THEN << >>
                      ELSE GroupOffers(cars, grp)
          IN  /\ g' = grp
              /\ offers' = offs
              /\ oi' = 0
              /\ selected' = None
              /\ visited' = << >>
              /\ IF offs = << >>
                 THEN /\ output' = Append(output, GroupOut(grp, None))
                      /\ gi' = gi + 1
                      /\ pc' = "group"
                 ELSE /\ pc' = "walk"
                      /\ UNCHANGED <<output, gi>>
    /\ UNCHANGED <<cars, best_model, car_info, page, bucket>>

\* one iteration of `for off in offers`; the append that follows the loop
\* when it breaks or runs out
B_Visit ==
    /\ pc = "walk"
    /\ oi < Len(offers)
    /\ LET off == offers[oi + 1] IN
       \E p \in Pages :
          LET accept == Accept(g, p)
              sel == IF accept THEN Some(SelectedDetails(off, p.details))
                     ELSE None
          IN  /\ page' = p
              /\ visited' = Append(visited, off.link)
              /\ oi' = oi + 1
              /\ selected' = sel
              /\ IF accept \/ oi + 1 = Len(offers)
                 THEN /\ output' = Append(output, GroupOut(g, sel))
                      /\ gi' = gi + 1
                      /\ pc' = "group"
                 ELSE /\ pc' = "walk"
                      /\ UNCHANGED <<output, gi>>
    /\ UNCHANGED <<cars, g, offers, best_model, car_info, bucket>>

\* browser.close() and the write of group_selected_details.json
B_Write ==
    /\ pc = "group"
    /\ gi = NumGroups
    /\ pc' = "done"
    /\ UNCHANGED <<cars, gi, g, offers, oi, best_model, car_info, page,
                   selected, output, bucket, visited>>

(***************************************************************************)
(* step_5: Policy A.                                                       *)
(***************************************************************************)
CarInfo(entry) == [link |-> entry.link, price_eur |-> entry.price_eur]

\* cars_by_model after the first n entries of cars
RECURSIVE CarsByModelUpTo(_, _)
CarsByModelUpTo(cs, n) ==
    IF n = 0 THEN [m \in {} |-> None]
    ELSE LET prev == CarsByModelUpTo(cs, n - 1)
             entry == cs[n]
             model_name == Strip(entry.name)
             price == entry.price_eur
         IN  IF model_name \in DOMAIN prev
             THEN LET existing_price == prev[model_name].price_eur
                  IN  IF /\ price # None
                         /\ (existing_price = None \/ price[1] < existing_price[1])
                      THEN [prev EXCEPT ![model_name] = CarInfo(entry)]
                      ELSE prev
             ELSE prev @@ (model_name :> CarInfo(entry))

\* the first entry of each model kept, whatever the prices that follow
CarsByModel_First(cs) ==
    LET names == {Strip(cs[i].name) : i \in DOMAIN cs}
        first(m) == CHOOSE i \in DOMAIN cs :
                        /\ Strip(cs[i].name) = m
                        /\ \A j \in 1..(i - 1) : Strip(cs[j].name) # m
    IN  [m \in names |-> CarInfo(cs[first(m)])]

CarsByModel(cs) == CarsByModelUpTo(cs, Len(cs))

\* max(v["score"] for v in vehs)
MaxScore(vehs) ==
    CHOOSE m \in {vehs[i].score : i \in DOMAIN vehs} :
        \A i \in DOMAIN vehs : vehs[i].score <= m

\* the last of the candidates instead of the first
BestModel_Last(vehs) ==
    LET max_score == MaxScore(vehs)
        candidates == SelectSeq(vehs, LAMBDA v : v.score = max_score)
    IN  candidates[Len(candidates)].model

\* candidates[0]["model"]
BestModel(vehs) ==
    LET max_score == MaxScore(vehs)
        candidates == SelectSeq(vehs, LAMBDA v : v.score = max_score)
    IN  candidates[1].model

\* an entry without a price taken for no entry
CarInfoOf_Priced(cs, mdl) ==
    LET cars_by_model == CarsByModel(cs)
    IN  IF mdl \in DOMAIN cars_by_model /\ cars_by_model[mdl].price_eur # None
        THEN Some(cars_by_model[mdl]) ELSE None

\* cars_by_model.get(best_model)
CarInfoOf(cs, mdl) ==
    LET cars_by_model == CarsByModel(cs)
    IN  IF mdl \in DOMAIN cars_by_model THEN Some(cars_by_model[mdl]) ELSE None

\* the pages step_5 tells apart: a TimeoutError, or a page that parses;
\* it reads nothing of the details, two of them are kept
PagesA ==
    {p \in Pages :
        \/ p.status = "timeout"
        \/ /\ p.status = "car"
           /\ p.details.supplier_name = str_Hertz
           /\ p.details.transmission # None}

\* the data of cars.json kept when the page times out
A_Selected_KeepBase(info, p) ==
    IF p.status = "timeout" THEN Some(SelectedDetails(info, NoDetails))
    ELSE Some(SelectedDetails(info, p.details))

\* selected_details after the try: None on a TimeoutError
A_Selected(info, p) ==
    IF p.status = "timeout" THEN None
    ELSE Some(SelectedDetails(info, p.details))

\* the head of `for grp in gruppi`, up to the goto
A_Group ==
    /\ pc = "group"
    /\ gi < NumGroups
    /\ \E b \in Buckets : \E grp \in {Group(gi + 1, b)} :
          LET vehs == grp.vehicles
              best == IF vehs # << >> THEN Some(BestModel(vehs)) ELSE None
              info == IF best # None THEN CarInfoOf(cars, best[1]) ELSE None
          IN  /\ g' = grp
              /\ bucket' = b
              /\ best_model' = best
              /\ car_info' = info
              /\ selected' = None
              /\ visited' = << >>
              /\ IF info = None
                 THEN /\ output' = Append(output, GroupOut(grp, None))
                      /\ gi' = gi + 1
                      /\ pc' = "group"
                 ELSE /\ pc' = "fetch"
                      /\ UNCHANGED <<output, gi>>
    /\ UNCHANGED <<cars, offers, oi, page>>

\* the goto of the chosen link, parse_car_page and the append
A_Fetch ==
    /\ pc = "fetch"
    /\ LET link == car_info[1].link IN
       \E p \in PagesA :
          LET sel == A_Selected(car_info[1], p)
          IN  /\ page' = p
              /\ visited' = Append(visited, link)
              /\ selected' = sel
              /\ output' = Append(output, GroupOut(g, sel))
              /\ gi' = gi + 1
              /\ pc' = "group"
    /\ UNCHANGED <<cars, g, offers, oi, best_model, car_info, bucket>>

\* browser.close() and the write of group_selected_details.json
A_Write ==
    /\ pc = "group"
    /\ gi = NumGroups
    /\ pc' = "done"
    /\ UNCHANGED <<cars, gi, g, offers, oi, best_model, car_info, page,
                   selected, output, bucket, visited>>

InitResolver ==
    /\ cars \in CarLists
    /\ pc = "group"
    /\ gi = 0
    /\ g = NoGroup
    /\ offers = << >>
    /\ oi = 0
    /\ best_model = None
    /\ car_info = None
    /\ page = BlankPage
    /\ selected = None
    /\ output = << >>
    /\ bucket = << >>
    /\ visited = << >>

\* the other programs have not run
IdleClassifier ==
    /\ c_pc = "idle"
    /\ bi = 0
    /\ buckets = << >>
    /\ buckets_manual = << >>
    /\ buckets_auto = << >>
    /\ buckets_final = << >>
    /\ groups_out = << >>
    /\ returned = << >>

NoFrame == [index |-> << >>, columns |-> << >>, cell |-> << >>]

IdleAggregator ==
    /\ a_pc = "idle"
    /\ pi = 0
    /\ groups = None
    /\ price_map = << >>
    /\ data_per_period = << >>
    /\ all_groups = {}
    /\ df = NoFrame

IdleExtra ==
    /\ x_pc = "idle"
    /\ builder = "none"
    /\ prices = << >>
    /\ base_periods = << >>
    /\ extra_periods = << >>
    /\ xdf = << >>
    /\ xi = 0
    /\ xindex = << >>

IdleWorkflow ==
    /\ w_pc = "idle"
    /\ periods = << >>
    /\ wi = 0
    /\ disk = << >>
    /\ calls = << >>
    /\ wcols = << >>

IdleScrape ==
    /\ s_pc = "idle"
    /\ variant = "none"
    /\ attempt = 0
    /\ s_cars = 0
    /\ reloads = 0
    /\ outcomes = << >>
    /\ written = FALSE

IdleRule ==
    /\ r_pc = "idle"
    /\ r_groups = << >>
    /\ gen_rows = << >>
    /\ ui_rows = << >>

IdleLate == IdleWorkflow /\ IdleScrape /\ IdleRule

IdleRest == IdleClassifier /\ IdleAggregator /\ IdleExtra /\ IdleLate

InitA == InitResolver /\ policy = "A" /\ fetched = << >> /\ IdleRest

NextA ==
    \/ A_Group /\ UNCHANGED <<policy, fetched, restVars>>
    \/ A_Fetch /\ UNCHANGED <<policy, fetched, restVars>>
    \/ A_Write /\ UNCHANGED <<policy, fetched, restVars>>

SpecA == InitA /\ [][NextA]_vars

InitB == InitResolver /\ policy = "B" /\ fetched = << >> /\ IdleRest

NextB ==
    \/ B_Group /\ UNCHANGED <<policy, fetched, restVars>>
    \/ B_Visit /\ UNCHANGED <<policy, fetched, restVars>>
    \/ B_Write /\ UNCHANGED <<policy, fetched, restVars>>

SpecB == InitB /\ [][NextB]_vars

(***************************************************************************)
(* Either resolver, with the record of what its gotos left.                *)
(***************************************************************************)
\* the pages the gotos of the current category left, after a step
Fetched ==
    IF visited' = visited THEN fetched
    ELSE IF visited' = << >> THEN << >>
    ELSE Append(fetched, page')

\* the pages of the runs whose gotos are recorded: a timeout, and the page
\* of a vehicle with either transmission
PagesAB == PagesA

InitAB == InitResolver /\ policy \in {"A", "B"} /\ fetched = << >> /\ IdleRest

NextAB ==
    \/ policy = "A" /\ A_Group /\ fetched' = Fetched /\ UNCHANGED <<policy, restVars>>
    \/ policy = "A" /\ A_Fetch /\ fetched' = Fetched /\ UNCHANGED <<policy, restVars>>
    \/ policy = "A" /\ A_Write /\ fetched' = Fetched /\ UNCHANGED <<policy, restVars>>
    \/ policy = "B" /\ B_Group /\ fetched' = Fetched /\ UNCHANGED <<policy, restVars>>
    \/ policy = "B" /\ B_Visit /\ page' \in PagesAB /\ fetched' = Fetched
                    /\ UNCHANGED <<policy, restVars>>
    \/ policy = "B" /\ B_Write /\ fetched' = Fetched /\ UNCHANGED <<policy, restVars>>

SpecAB == InitAB /\ [][NextAB]_vars

(***************************************************************************)
(* step_3 on its own.                                                      *)
(***************************************************************************)
\* no resolver runs
IdleResolver ==
    /\ cars = << >>
    /\ pc = "idle"
    /\ gi = 0
    /\ g = NoGroup
    /\ offers = << >>
    /\ oi = 0
    /\ best_model = None
    /\ car_info = None
    /\ page = BlankPage
    /\ selected = None
    /\ output = << >>
    /\ bucket = << >>
    /\ visited = << >>
    /\ policy = "none"
    /\ fetched = << >>

\* the first pass opens its buckets
InitC ==
    /\ IdleResolver
    /\ c_pc = "manual"
    /\ bi = 0
    /\ buckets = PassBuckets(manual_groups)
    /\ buckets_manual = << >>
    /\ buckets_auto = << >>
    /\ buckets_final = << >>
    /\ groups_out = << >>
    /\ returned = << >>
    /\ IdleAggregator
    /\ IdleExtra
    /\ IdleLate

NextC ==
    \/ C_Batch /\ UNCHANGED <<resolverVars, policy, fetched, aggVars, extraVars, lateVars>>
    \/ C_Merge /\ UNCHANGED <<resolverVars, policy, fetched, aggVars, extraVars, lateVars>>
    \/ C_Write /\ UNCHANGED <<resolverVars, policy, fetched, aggVars, extraVars, lateVars>>

SpecC == InitC /\ [][NextC]_vars

(***************************************************************************)
(* gen_output_file on its own.                                             *)
(***************************************************************************)
InitG ==
    /\ IdleResolver
    /\ IdleClassifier
    /\ a_pc = "period"
    /\ pi = 0
    /\ groups = None
    /\ price_map = << >>
    /\ data_per_period = << >>
    /\ all_groups = {}
    /\ df = NoFrame
    /\ IdleExtra
    /\ IdleLate

NextG ==
    \/ G_Period /\ UNCHANGED <<resolverVars, policy, fetched, classVars, extraVars, lateVars>>
    \/ G_Build /\ UNCHANGED <<resolverVars, policy, fetched, classVars, extraVars, lateVars>>

SpecG == InitG /\ [][NextG]_vars

(***************************************************************************)
(* The builders of the matrix with extra periods, on their own.            *)
(***************************************************************************)
InitX ==
    /\ IdleResolver
    /\ IdleClassifier
    /\ IdleAggregator
    /\ x_pc = "start"
    /\ builder \in Builders
    /\ prices \in PriceTables
    /\ base_periods \in BaseLists
    /\ extra_periods \in ExtraLists
    /\ xdf = << >>
    /\ xi = 0
    /\ xindex = << >>
    /\ IdleLate

\* the periods whose prices the builder collects
LoadedPeriods ==
    IF builder \in {"process_extra_periods", "build_csv_for_location"}
    THEN DOMAIN prices
    ELSE UiPeriods \cap DOMAIN prices

\* sorted(rows): the codes with a price in some collected period
FrameIndex ==
    SortedSeq({c \in SippCodes : \E d \in LoadedPeriods : prices[d][c] # None})

NextX ==
    \/ X_Load /\ xindex' = (IF x_pc' = "loop" THEN FrameIndex ELSE xindex)
              /\ UNCHANGED <<resolverVars, policy, fetched, classVars, aggVars, lateVars>>
    \/ X_Extra /\ UNCHANGED <<xindex, resolverVars, policy, fetched, classVars,
                               aggVars, lateVars>>
    \/ X_Finish /\ UNCHANGED <<xindex, resolverVars, policy, fetched, classVars,
                                aggVars, lateVars>>

SpecX == InitX /\ [][NextX]_vars

(***************************************************************************)
(* Either aggregator: gen_output_file or a builder of workflow_ui.         *)
(***************************************************************************)
InitGX == InitG \/ InitX

NextGX ==
    \/ G_Period /\ UNCHANGED <<resolverVars, policy, fetched, classVars, extraVars, lateVars>>
    \/ G_Build /\ UNCHANGED <<resolverVars, policy, fetched, classVars, extraVars, lateVars>>
    \/ X_Load /\ xindex' = (IF x_pc' = "loop" THEN FrameIndex ELSE xindex)
              /\ UNCHANGED <<resolverVars, policy, fetched, classVars, aggVars, lateVars>>
    \/ X_Extra /\ UNCHANGED <<xindex, resolverVars, policy, fetched, classVars,
                               aggVars, lateVars>>
    \/ X_Finish /\ UNCHANGED <<xindex, resolverVars, policy, fetched, classVars,
                                aggVars, lateVars>>

SpecGX == InitGX /\ [][NextGX]_vars

(***************************************************************************)
(* The same builders for any two lists of periods: a period may be given   *)
(* twice, as base and as extra period, and in any order.                   *)
(***************************************************************************)
\* the lists of at most two periods of S
ListsOfTwo(S) ==
    {<< >>} \cup {<<p>> : p \in S} \cup {<<p, q>> : p \in S, q \in S}

PeriodListsAny == ListsOfTwo({5, 7, 10})

InitXAny ==
    /\ IdleResolver
    /\ IdleClassifier
    /\ IdleAggregator
    /\ x_pc = "start"
    /\ builder \in Builders
    /\ prices \in PriceTables
    /\ base_periods \in PeriodListsAny
    /\ extra_periods \in PeriodListsAny
    /\ xdf = << >>
    /\ xi = 0
    /\ xindex = << >>
    /\ IdleLate

SpecXAny == InitXAny /\ [][NextX]_vars

(***************************************************************************)
(* run_workflow on its own.                                                *)
(***************************************************************************)
InitW ==
    /\ IdleResolver
    /\ IdleClassifier
    /\ IdleAggregator
    /\ IdleExtra
    /\ w_pc = "step_1"
    /\ periods \in PeriodLists
    /\ wi = 0
    /\ disk \in [DiskPeriods -> OldFolders]
    /\ calls = << >>
    /\ wcols = << >>
    /\ IdleScrape
    /\ IdleRule

NextW ==
    \/ W_Step1 /\ UNCHANGED <<resolverVars, policy, fetched, classVars, aggVars,
                               extraVars, scrapeVars, ruleVars>>
    \/ W_Step2 /\ UNCHANGED <<resolverVars, policy, fetched, classVars, aggVars,
                               extraVars, scrapeVars, ruleVars>>
    \/ W_Step3 /\ UNCHANGED <<resolverVars, policy, fetched, classVars, aggVars,
                               extraVars, scrapeVars, ruleVars>>
    \/ W_Step5 /\ UNCHANGED <<resolverVars, policy, fetched, classVars, aggVars,
                               extraVars, scrapeVars, ruleVars>>
    \/ W_Gen /\ UNCHANGED <<resolverVars, policy, fetched, classVars, aggVars,
                             extraVars, scrapeVars, ruleVars>>

SpecW == InitW /\ [][NextW]_vars

(***************************************************************************)
(* The offer scrape on its own.                                            *)
(***************************************************************************)
InitS ==
    /\ IdleResolver
    /\ IdleClassifier
    /\ IdleAggregator
    /\ IdleExtra
    /\ IdleWorkflow
    /\ s_pc = "loop"
    /\ variant \in Variants
    /\ attempt = 0
    /\ s_cars = 0
    /\ reloads = 0
    /\ outcomes = << >>
    /\ written = FALSE
    /\ IdleRule

NextS ==
    \/ S_Attempt /\ UNCHANGED <<resolverVars, policy, fetched, classVars, aggVars,
                                 extraVars, workflowVars, ruleVars>>
    \/ S_NoResult /\ UNCHANGED <<resolverVars, policy, fetched, classVars, aggVars,
                                  extraVars, workflowVars, ruleVars>>
    \/ S_Scrape /\ UNCHANGED <<resolverVars, policy, fetched, classVars, aggVars,
                                extraVars, workflowVars, ruleVars>>
    \/ S_Write /\ UNCHANGED <<resolverVars, policy, fetched, classVars, aggVars,
                               extraVars, workflowVars, ruleVars>>

SpecS == InitS /\ [][NextS]_vars

(***************************************************************************)
(* The two aggregators on the same group_selected_details.json.            *)
(***************************************************************************)
InitR ==
    /\ IdleResolver
    /\ IdleClassifier
    /\ IdleAggregator
    /\ IdleExtra
    /\ IdleWorkflow
    /\ IdleScrape
    /\ r_pc = "read"
    /\ r_groups \in GroupFiles
    /\ gen_rows = None
    /\ ui_rows = None

NextR ==
    \/ R_Gen /\ UNCHANGED <<resolverVars, policy, fetched, classVars, aggVars,
                             extraVars, workflowVars, scrapeVars>>
    \/ R_Ui /\ UNCHANGED <<resolverVars, policy, fetched, classVars, aggVars,
                            extraVars, workflowVars, scrapeVars>>

SpecR == InitR /\ [][NextR]_vars

(***************************************************************************)
(* Properties of the two resolvers.                                        *)
(***************************************************************************)
Range(s) == {s[i] : i \in DOMAIN s}

\* the current category has its entry in the output
Finished == pc \in {"group", "done"} /\ gi > 0

Result == output[gi].selected_car_details

\* the offers of cars.json that carry the model name m
OffersOfModel(m) == {cars[i] : i \in {j \in DOMAIN cars : Strip(cars[j].name) = m}}

\* x is not dearer than y, an offer without a price being the dearest
NotDearer(x, y) ==
    \/ y.price_eur = None
    \/ (x.price_eur # None /\ x.price_eur[1] <= y.price_eur[1])

\* the offers of the models of the current category that reach the threshold
Pool ==
    {cars[i] : i \in {j \in DOMAIN cars :
        \E k \in DOMAIN g.vehicles :
            /\ g.vehicles[k].score >= SOGLIA_SCORE
            /\ g.vehicles[k].model = Strip(cars[j].name)}}

\* a supplier name that equals an entry of the exclusion list, case ignored
Excluded(name) == \E e \in EXCLUDE_SUPPLIERS : Lower(name) = Lower(e)

\* C1: in Policy B every goto of a category takes, among the offers of its
\* candidate models not yet visited, one of the lowest price (no price
\* last), is made only while nothing is selected, and selects the offer
\* exactly when its page passes the acceptance test, which ends the walk.
C1_WalkInPriceOrder ==
    [][(pc = "walk" /\ Len(visited') = Len(visited) + 1) =>
        LET l == visited'[Len(visited')]
            off == cars[l]
        IN  /\ selected = None
            /\ off \in Pool
            /\ \A j \in DOMAIN visited : NotDearer(cars[visited[j]], off)
            /\ \A o \in Pool : o.link \notin Range(visited') => NotDearer(off, o)
            /\ (selected' # None) = Accept(g, page')
            /\ selected' # None =>
                  /\ selected'[1].link = l
                  /\ pc' = "group"
                  /\ output'[gi'].selected_car_details = selected'
            /\ (selected' = None /\ Len(visited') < Len(offers)) => pc' = "walk"]_vars

\* an offer is selected after an earlier one was passed over, and a dearer
\* one is left unvisited
C1_Witness ==
    /\ Finished
    /\ selected # None
    /\ Len(visited) >= 2
    /\ \E o \in Pool : o.link \notin Range(visited)

\* C2: Policy B never selects an offer whose supplier name equals, case
\* ignored, an entry of the exclusion list.
C2_ExcludedNeverSelected ==
    \A k \in DOMAIN output :
        LET s == output[k].selected_car_details
        IN  s # None => ~Excluded(s[1].supplier_name)

\* C3: in Policy A the chosen model of a category with assignments is the
\* first of the list whose score is the maximum; a category without
\* assignments has no chosen model and resolves to null.
C3_FirstOfMaxScore ==
    g # NoGroup =>
        LET vehs == g.vehicles
        IN  IF vehs = << >>
            THEN /\ best_model = None
                 /\ visited = << >>
                 /\ Finished
                 /\ Result = None
            ELSE /\ best_model # None
                 /\ \E i \in DOMAIN vehs :
                       /\ vehs[i].model = best_model[1]
                       /\ \A j \in DOMAIN vehs : vehs[j].score <= vehs[i].score
                       /\ \A j \in 1..(i - 1) : vehs[j].score < vehs[i].score

\* two models share the maximum score and one is chosen
C3_Witness ==
    /\ best_model # None
    /\ Len(g.vehicles) >= 2
    /\ g.vehicles[1].score = g.vehicles[2].score

\* C4, as claimed: among the models that share the maximum rounded score of
\* the list, Policy A chooses the one whose name is smallest, case ignored.
C4_SmallestNameOfTies ==
    (g # NoGroup /\ g.vehicles # << >>) =>
        \A k \in DOMAIN g.vehicles :
            g.vehicles[k].score = MaxScore(g.vehicles) =>
                ~StrLess(Lower(g.vehicles[k].model), Lower(best_model[1]))

\* C4, amended: Policy A chooses a model of the highest unrounded score of
\* the category, and among the models of that unrounded score the one
\* whose name is smallest, case ignored.
C4_HighestRawThenName ==
    (g # NoGroup /\ g.vehicles # << >>) =>
        \E b \in DOMAIN bucket :
            /\ bucket[b][1] = best_model[1]
            /\ \A i \in DOMAIN bucket :
                  /\ bucket[i][2] <= bucket[b][2]
                  /\ bucket[i][2] = bucket[b][2] =>
                        ~StrLess(Lower(bucket[i][1]), Lower(bucket[b][1]))

\* two models share the maximum rounded score, with unrounded scores that
\* differ, and the chosen one is not the smallest name
C4_Witness ==
    /\ best_model # None
    /\ Len(g.vehicles) >= 2
    /\ g.vehicles[1].score = g.vehicles[2].score
    /\ \E i, j \in DOMAIN bucket : bucket[i][2] # bucket[j][2]
    /\ StrLess(Lower(g.vehicles[2].model), Lower(best_model[1]))

\* C5: the offer Policy A selects is an offer of the chosen model, and no
\* offer of that model has a lower price.
C5_CheapestOfModel ==
    selected # None =>
        LET s == selected[1]
            mine == OffersOfModel(best_model[1])
        IN  /\ \E o \in mine : o.link = s.link /\ o.price_eur = s.price_eur
            /\ \A o \in mine :
                  o.price_eur # None =>
                      /\ s.price_eur # None
                      /\ s.price_eur[1] <= o.price_eur[1]

\* the selected offer comes after a dearer one and after one without price
C5_Witness ==
    /\ selected # None
    /\ selected[1].price_eur # None
    /\ \E o \in OffersOfModel(best_model[1]) :
          /\ o.link < selected[1].link
          /\ o.price_eur # None
          /\ o.price_eur[1] > selected[1].price_eur[1]
    /\ \E o \in OffersOfModel(best_model[1]) : o.price_eur = None

\* the chosen model has offers and none of them has a price
AllNull ==
    /\ g # NoGroup
    /\ best_model # None
    /\ OffersOfModel(best_model[1]) # {}
    /\ \A o \in OffersOfModel(best_model[1]) : o.price_eur = None

\* C6, as claimed: when no offer of the chosen model has a price, Policy A
\* resolves the category to null and attaches no offer.
C6_AllNullIsNull == (AllNull /\ Finished) => selected = None /\ Result = None

\* C6, amended: when no offer of the chosen model has a price, Policy A
\* takes the first offer of the model in the list; its link alone is
\* fetched, the result is null exactly when that fetch times out, and the
\* selection carries that link with a null price.
C6_AllNullTakesFirst ==
    AllNull =>
        LET m == best_model[1]
            first == CHOOSE o \in OffersOfModel(m) :
                        \A q \in OffersOfModel(m) : o.link <= q.link
        IN  /\ car_info = Some(CarInfo(first))
            /\ Finished =>
                  /\ visited = <<first.link>>
                  /\ (selected = None) = (page.status = "timeout")
                  /\ Result = selected
                  /\ selected # None =>
                        /\ selected[1].link = first.link
                        /\ selected[1].price_eur = None

\* two offers without price, the first of them selected
C6_Witness ==
    /\ AllNull
    /\ Finished
    /\ selected # None
    /\ Cardinality(OffersOfModel(best_model[1])) >= 2

\* C7: Policy A calls goto at most once per category, on an offer of the
\* chosen model; a timeout of it leaves the category null; a chosen model
\* without offer leaves it null without any goto.
C7_SingleFetch ==
    /\ Len(visited) <= 1
    /\ \A l \in Range(visited) :
          best_model # None /\ cars[l] \in OffersOfModel(best_model[1])
    /\ (Finished /\ visited # << >> /\ page.status = "timeout") =>
          selected = None /\ Result = None
    /\ (g # NoGroup /\ best_model # None /\ OffersOfModel(best_model[1]) = {}) =>
          /\ Finished
          /\ visited = << >>
          /\ Result = None

\* the one fetch timed out although the model has a second offer and the
\* category a second model with offers
C7_Witness ==
    /\ Finished
    /\ visited # << >>
    /\ page.status = "timeout"
    /\ Cardinality(OffersOfModel(best_model[1])) >= 2
    /\ \E k \in DOMAIN g.vehicles :
          /\ g.vehicles[k].model # best_model[1]
          /\ OffersOfModel(g.vehicles[k].model) # {}

\* C8: the offers Policy B walks are exactly the offers of the models whose
\* score is at least 0.9; without such a model the category is null and no
\* goto is made.
C8_ThresholdCandidates ==
    g # NoGroup =>
        LET cand == {g.vehicles[k].model :
                        k \in {j \in DOMAIN g.vehicles : g.vehicles[j].score >= 900}}
        IN  /\ \A i \in DOMAIN cars :
                  (Strip(cars[i].name) \in cand)
                      = (\E j \in DOMAIN offers : offers[j].link = i)
            /\ \A l \in Range(visited) : Strip(cars[l].name) \in cand
            /\ cand = {} =>
                  /\ Finished
                  /\ visited = << >>
                  /\ Result = None

\* a model at exactly 0.9 is walked while a model at 0.89 with an offer is not
C8_Witness ==
    /\ visited # << >>
    /\ \E k \in DOMAIN g.vehicles :
          /\ g.vehicles[k].score = 900
          /\ g.vehicles[k].model = Strip(cars[visited[1]].name)
    /\ \E k \in DOMAIN g.vehicles :
          /\ g.vehicles[k].score = 890
          /\ OffersOfModel(g.vehicles[k].model) # {}

C10_SkippedNeverSelected ==
    /\ \A i, j \in DOMAIN visited : visited[i] = visited[j] => i = j
    /\ (visited # << >> /\ page.status \in {"timeout", "search", "nomarker"}) =>
          selected = None
    /\ selected # None =>
          /\ selected[1].link = visited[Len(visited)]
          /\ page.status = "car"
    /\ (Finished /\ g # NoGroup /\ selected = None) =>
          /\ Len(visited) = Len(offers)
          /\ Result = None
    /\ Len(output) = gi
    /\ \A k \in DOMAIN output : output[k].sipp_code = Catalog[k].sipp_code
    /\ pc = "done" => gi = NumGroups

\* the first category is null after two offers, the last one a stale link,
\* and the second category is still to be taken
C10_Witness ==
    /\ pc = "group"
    /\ gi = 1
    /\ gi < NumGroups
    /\ Len(visited) >= 2
    /\ Len(visited) = Len(offers)
    /\ page.status = "search"
    /\ Result = None

\* the selection of Policy A for the category grp taken alone, when the
\* gotos it makes leave the pages ps
AloneA(cs, grp, ps) ==
    IF grp.vehicles = << >> THEN None
    ELSE LET info == CarInfoOf(cs, BestModel(grp.vehicles))
         IN  IF info = None \/ ps = << >> THEN None
             ELSE A_Selected(info[1], ps[1])

\* the first offer of offs whose page of ps is accepted for grp
RECURSIVE WalkAlone(_, _, _)
WalkAlone(grp, offs, ps) ==
    IF offs = << >> \/ ps = << >> THEN None
    ELSE IF Accept(grp, Head(ps))
         THEN Some(SelectedDetails(Head(offs), Head(ps).details))
         ELSE WalkAlone(grp, Tail(offs), Tail(ps))

\* the selection of Policy B for the category grp taken alone
AloneB(cs, grp, ps) ==
    IF CandidateModels(grp) = << >> THEN None
    ELSE WalkAlone(grp, GroupOffers(cs, grp), ps)

Alone(cs, grp, ps) ==
    IF policy = "A" THEN AloneA(cs, grp, ps) ELSE AloneB(cs, grp, ps)

\* C11: for both policies the entry appended for a category is the selection
\* the category gets when resolved alone from its scored assignments, the
\* offer list and the pages its own gotos left, whatever categories were
\* resolved before it; the entries of the earlier categories are not
\* touched, and the offer list is not changed.
C11_OrderIndependent ==
    [][/\ cars' = cars
       /\ SubSeq(output', 1, Len(output)) = output
       /\ Len(output') = Len(output) + 1 =>
             /\ output'[Len(output')].selected_car_details
                    = Alone(cars, g', fetched')
             /\ Len(fetched') = Len(visited')]_vars

\* in Policy B the second category selects, after a first offer passed
\* over, the link the first category selected
C11_Witness ==
    /\ policy = "B"
    /\ pc = "group"
    /\ gi = 2
    /\ Len(visited) >= 2
    /\ output[1].selected_car_details # None
    /\ output[2].selected_car_details # None
    /\ output[1].selected_car_details[1].link
          = output[2].selected_car_details[1].link

(***************************************************************************)
(* Properties of step_3.                                                   *)
(***************************************************************************)
\* the score a bucket map holds for a pair, None without one
Stored(bks, code, mdl) ==
    IF code \in DOMAIN bks /\ (\E i \in DOMAIN bks[code] : bks[code][i][1] = mdl)
    THEN Some(DictGet(bks[code], mdl, 0))
    ELSE None

\* the codes of a list of groups, as the buckets name them
Codes(gs) == {Upper(gs[i].sipp_code) : i \in DOMAIN gs}

\* C12: once merged, the score of every (category, model) pair of the final
\* bucket map is the highest valid score the classifier returned for the
\* pair over both passes, all batches and repeated items; a pair with a
\* valid score above zero is in the map; no model appears twice under a
\* category.
C12_MaxOfValidScores ==
    c_pc \in {"out", "done"} =>
        /\ \A code \in DOMAIN buckets_final :
              \A i \in DOMAIN buckets_final[code] :
                  LET mdl == buckets_final[code][i][1]
                  IN  /\ <<code, mdl>> \in DOMAIN returned
                      /\ buckets_final[code][i][2] = returned[<<code, mdl>>]
                      /\ \A j \in DOMAIN buckets_final[code] :
                            buckets_final[code][j][1] = mdl => i = j
        /\ \A pr \in DOMAIN returned :
              returned[pr] > 0 =>
                  Stored(buckets_final, pr[1], pr[2]) = Some(returned[pr])

\* a pair got 0.95 in the manual pass and 0.3 in the automatic pass
C12_Witness ==
    /\ c_pc = "done"
    /\ Stored(buckets_manual, str_E, Batch(1)[1]) = Some(950)
    /\ Stored(buckets_auto, str_E, Batch(1)[1]) = Some(300)
    /\ Stored(buckets_final, str_E, Batch(1)[1]) = Some(950)

\* C13: classify_batches never raises because of the answer of the
\* classifier.
C13_NeverFails == c_pc # "failed"

\* C14: the buckets of a pass hold only the codes of the groups offered in
\* that pass, the merged map only codes of the catalog, and the list written
\* has the groups of the catalog, in order, each with the models the
\* classifier validly returned for its code.
C14_OnlyInputCategories ==
    /\ c_pc \in {"manual", "auto"} => DOMAIN buckets = Codes(PassGroups(c_pc))
    /\ DOMAIN buckets_manual \subseteq Codes(manual_groups)
    /\ DOMAIN buckets_auto \subseteq Codes(automatic_groups)
    /\ DOMAIN buckets_final \subseteq Codes(RawGroups)
    /\ \A pr \in DOMAIN returned : pr[1] \in Codes(RawGroups)
    /\ c_pc = "done" =>
          /\ Len(groups_out) = Len(RawGroups)
          /\ \A i \in DOMAIN groups_out :
                /\ groups_out[i].sipp_code = RawGroups[i].sipp_code
                /\ \A k \in DOMAIN groups_out[i].vehicles :
                      <<Upper(RawGroups[i].sipp_code),
                        groups_out[i].vehicles[k].model>> \in DOMAIN returned

\* the run is over, with models under "E" and "F" in the automatic pass,
\* none under "F" in the manual pass, and none for the group "G"
C14_Witness ==
    /\ c_pc = "done"
    /\ buckets_manual[str_E] # << >>
    /\ buckets_auto[str_F] # << >>
    /\ buckets_auto[str_E] # << >>
    /\ str_F \notin DOMAIN buckets_manual
    /\ groups_out[4].vehicles = << >>
    /\ groups_out[2].vehicles # << >>

\* C15: every score in the buckets of a pass, in the merged map and in the
\* vehicles lists written lies between 0 and 1.
C15_ScoresInUnitInterval ==
    /\ \A bks \in {buckets, buckets_manual, buckets_auto, buckets_final} :
          \A code \in DOMAIN bks : \A i \in DOMAIN bks[code] :
              bks[code][i][2] \in 0..1000
    /\ \A i \in DOMAIN groups_out : \A k \in DOMAIN groups_out[i].vehicles :
          groups_out[i].vehicles[k].score \in 0..1000

(***************************************************************************)
(* Properties of gen_output_file.                                          *)
(***************************************************************************)
\* the amount, in hundredths of a cent, that the price rule gives before
\* it is rounded: pay_on_arrival - 1 when positive, else pay_now * 0.7 - 1
RuleAmount(det) ==
    IF det.pay_on_arrival # None /\ det.pay_on_arrival[1] > 0
    THEN det.pay_on_arrival[1] * 100 - 10000
    ELSE det.pay_now[1] * 70 - 10000

\* c cents is x hundredths of a cent rounded to the cent, or 0 when that
\* is negative
RoundedClamped(c, x) ==
    IF x + 50 < 0 THEN c = 0
    ELSE c >= 0 /\ c * 100 - 50 <= x /\ x < c * 100 + 50

\* C16: for every selection of the period file just read that has a
\* positive pay_on_arrival or a pay_now, the price recorded for its
\* category is pay_on_arrival - 1, else pay_now * (1 - 0.30) - 1, rounded
\* to the cent and raised to 0.00 when negative; no price recorded, and no
\* cell of the matrix, is negative.
C16_PriceRule ==
    /\ groups # None =>
          \A i \in DOMAIN groups[1] :
              LET sipp == groups[1][i].sipp_code
                  det == groups[1][i].selected_car_details
              IN  (/\ det # None
                   /\ \/ det[1].pay_on_arrival # None /\ det[1].pay_on_arrival[1] > 0
                      \/ det[1].pay_now # None) =>
                      /\ sipp \in DOMAIN price_map
                      /\ RoundedClamped(price_map[sipp], RuleAmount(det[1]))
    /\ \A c \in DOMAIN price_map : price_map[c] >= 0
    /\ \A d \in DOMAIN data_per_period : \A c \in DOMAIN data_per_period[d] :
          data_per_period[d][c] >= 0
    /\ \A k \in DOMAIN df.cell : df.cell[k] # None => df.cell[k][1] >= 0

\* the matrix is built: 101.00 on arrival gave 100.00, 100.00 now with 0 on
\* arrival gave 69.00, and a price of the first period was raised to 0.00
C16_Witness ==
    /\ a_pc = "done"
    /\ groups # None
    /\ groups[1][1].selected_car_details =
          Some([pay_now |-> Some(10000), pay_on_arrival |-> Some(10100)])
    /\ groups[1][2].selected_car_details =
          Some([pay_now |-> Some(10000), pay_on_arrival |-> Some(0)])
    /\ price_map[1] = 10000
    /\ price_map[2] = 6900
    /\ 3 \in DOMAIN data_per_period
    /\ 1 \in DOMAIN data_per_period[3]
    /\ data_per_period[3][1] = 0
    /\ df.cell[<<1, 3>>] = Some(0)

\* C17: no price is recorded for a category whose selection is null, has no
\* positive pay_on_arrival and no pay_now, or has both amounts at 0; the
\* cell of a category without recorded price is blank in the matrix.
C17_NoAmountNoPrice ==
    /\ groups # None =>
          \A i \in DOMAIN groups[1] :
              LET sipp == groups[1][i].sipp_code
                  det == groups[1][i].selected_car_details
              IN  (\/ det = None
                   \/ /\ det[1].pay_now = None
                      /\ \/ det[1].pay_on_arrival = None
                         \/ det[1].pay_on_arrival[1] <= 0
                   \/ /\ det[1].pay_now = Some(0)
                      /\ det[1].pay_on_arrival = Some(0)) =>
                      sipp \notin DOMAIN price_map
    /\ \A k \in DOMAIN df.cell :
          (df.cell[k] = None) = (k[1] \notin DOMAIN data_per_period[k[2]])

(***************************************************************************)
(* Properties of the extra periods.                                        *)
(***************************************************************************)
BaseSet == {base_periods[i] : i \in DOMAIN base_periods}
ExtraSet == {extra_periods[i] : i \in DOMAIN extra_periods}

\* the base periods below ep that have a column in the matrix
Preceding(ep) ==
    {b \in BaseSet :
        /\ b < ep
        /\ builder = "process_extra_periods" => b \in DOMAIN prices}

\* the cell r is (a - b) / k, for two stored prices a and b
IsMarginal(r, a, b, k) ==
    /\ r # None
    /\ r[1][1] * a[1][2] * b[1][2] * k
          = (a[1][1] * b[1][2] - b[1][1] * a[1][2]) * r[1][2]

\* C18: in the matrix process_extra_periods returns, every extra period
\* that has a base period below it with a column has one column, whose cell
\* of every category is (price[ep] - price[prev]) / (ep - prev) for the
\* largest such base period prev, and is blank when either price is
\* missing.
C18_MarginalOfExtraPeriod ==
    (builder = "process_extra_periods" /\ x_pc = "done") =>
        \A ep \in ExtraSet :
            Preceding(ep) # {} =>
                LET prev == CHOOSE b \in Preceding(ep) :
                                \A q \in Preceding(ep) : q <= b
                IN  /\ ep \in DOMAIN prices
                    /\ Cardinality({i \in DOMAIN xdf : xdf[i].of = ep}) = 1
                    /\ \A i \in DOMAIN xdf :
                          xdf[i].of = ep =>
                              \A c \in SippCodes :
                                  IF prices[ep][c] = None \/ prices[prev][c] = None
                                  THEN xdf[i].cells[c] = None
                                  ELSE IsMarginal(xdf[i].cells[c], prices[ep][c],
                                                  prices[prev][c], ep - prev)

\* period 10 is derived from period 7, the base periods being given as
\* 7 then 5, with one category priced in both periods and the other
\* without price for period 7
C18_Witness ==
    /\ builder = "process_extra_periods"
    /\ x_pc = "done"
    /\ base_periods = <<7, 5>>
    /\ extra_periods = <<10>>
    /\ {5, 7, 10} \subseteq DOMAIN prices
    /\ prices[10][1] # None /\ prices[7][1] # None
    /\ prices[10][2] # None /\ prices[7][2] = None
    /\ \E i \in DOMAIN xdf :
          /\ xdf[i].of = 10
          /\ xdf[i].cells[1] # None
          /\ xdf[i].cells[2] = None

\* C19: process_extra_periods, build_csv_for_location_ and
\* build_csv_for_location__ deliver no matrix when an extra period has no
\* base period below it with a column: the run ends with an error.
C19_UnresolvableReported ==
    (/\ builder \in {"process_extra_periods", "build_csv_for_location_",
                     "build_csv_for_location__"}
     /\ x_pc = "done") =>
        \A ep \in ExtraSet : Preceding(ep) # {}

\* C20: in the matrix of build_csv_for_location and in the one of
\* process_extra_periods, a column that holds the data of an extra period
\* has no period as header, and each of its cells is blank or the marginal
\* value over a base period below it.
C20_ExtraColumnsDerived ==
    (/\ builder \in {"build_csv_for_location", "process_extra_periods"}
     /\ x_pc = "done") =>
        \A i \in DOMAIN xdf :
            xdf[i].of \in ExtraSet =>
                /\ xdf[i].label.kind # "days"
                /\ \A c \in SippCodes :
                      \/ xdf[i].cells[c] = None
                      \/ \E prev \in BaseSet \cap DOMAIN prices :
                            /\ prev < xdf[i].of
                            /\ prices[prev][c] # None
                            /\ IsMarginal(xdf[i].cells[c], prices[xdf[i].of][c],
                                          prices[prev][c], xdf[i].of - prev)

\* the columns of the matrix that hold a derived value
Derived == {i \in DOMAIN xdf : xdf[i].label.kind # "days"}

\* C21: in the matrix of process_extra_periods and in the one of
\* build_csv_for_location_, every transformed extra period has exactly one
\* derived column, and no two derived columns carry the same header: the
\* header tells the period a derived column came from.
C21_DerivedDistinguishable ==
    (/\ builder \in {"process_extra_periods", "build_csv_for_location_"}
     /\ x_pc = "done") =>
        /\ \A i \in Derived :
              Cardinality({j \in Derived : xdf[j].of = xdf[i].of}) = 1
        /\ \A i \in Derived : \A j \in Derived :
              i # j => xdf[i].label # xdf[j].label

(***************************************************************************)
(* Properties of run_workflow.                                             *)
(***************************************************************************)
\* the periods given to the run, and the columns of the matrix written
InputPeriods == {periods[i] : i \in DOMAIN periods}

\* C22: the matrix gen_output_file writes at the end of run_workflow has
\* exactly one column for every period given to the run, priced or not,
\* and none for any other period.
C22_ColumnsAreInputPeriods ==
    w_pc = "done" =>
        /\ \A d \in InputPeriods :
              Cardinality({i \in DOMAIN wcols : wcols[i].days = d}) = 1
        /\ \A i \in DOMAIN wcols : wcols[i].days \in InputPeriods

(***************************************************************************)
(* Properties of the matrix of either aggregator.                          *)
(***************************************************************************)
\* the categories gen_output_file has a price for in some period, and the
\* ones a builder of workflow_ui finds a price for in some period folder
SeenByGen == UNION {DOMAIN data_per_period[d] : d \in DOMAIN data_per_period}

SeenByUi == {c \in SippCodes : \E d \in DOMAIN prices : prices[d][c] # None}

IsSortedSeqOf(sq, S) ==
    /\ {sq[i] : i \in DOMAIN sq} = S
    /\ \A i \in DOMAIN sq : \A j \in DOMAIN sq : i < j => sq[i] < sq[j]

\* C23: the rows of the matrix written by gen_output_file, and of the one
\* written by build_csv_for_location, are the categories that have a price
\* in some period, each once; the cell of a category in the column of a
\* period is blank exactly when the category has no price in that period,
\* so two periods with the disjoint category sets {X} and {Y} give a row
\* for X and a row for Y.
C23_RowsAreUnion ==
    /\ a_pc = "done" =>
          /\ IsSortedSeqOf(df.index, SeenByGen)
          /\ \A d \in DOMAIN data_per_period : \A c \in SeenByGen :
                /\ <<c, d>> \in DOMAIN df.cell
                /\ (df.cell[<<c, d>>] = None) = (c \notin DOMAIN data_per_period[d])
    /\ (builder = "build_csv_for_location" /\ x_pc = "done") =>
          /\ IsSortedSeqOf(xindex, SeenByUi)
          /\ \A i \in DOMAIN xdf : \A c \in SeenByUi :
                (xdf[i].cells[c] = None) = (prices[xdf[i].of][c] = None)

\* gen_output_file has written the matrix of two periods, the first with a
\* price for the category 1 only and the second for the category 2 only
C23_Witness ==
    /\ a_pc = "done"
    /\ DOMAIN data_per_period = {3, 7}
    /\ DOMAIN data_per_period[3] = {1}
    /\ DOMAIN data_per_period[7] = {2}
    /\ df.index = <<1, 2>>
    /\ df.cell[<<1, 3>>] # None /\ df.cell[<<2, 3>>] = None
    /\ df.cell[<<2, 7>>] # None /\ df.cell[<<1, 7>>] = None

\* the rows are in ascending order of their codes
RowsAscending == \A i \in DOMAIN xindex : \A j \in DOMAIN xindex : i < j => xindex[i] < xindex[j]

\* the columns that hold the price of a base period
BaseColumns == {i \in DOMAIN xdf \ Derived : xdf[i].of \in BaseSet}

\* C24 as stated: in the matrix of process_extra_periods and in the one of
\* build_csv_for_location_, the rows are in ascending order, the columns
\* of the base periods are in ascending order, and no derived column
\* stands before the column of a base period.
C24_BaseThenExtra ==
    (/\ builder \in {"process_extra_periods", "build_csv_for_location_"}
     /\ x_pc = "done") =>
        /\ RowsAscending
        /\ \A i \in BaseColumns : \A j \in BaseColumns :
              i < j => xdf[i].of < xdf[j].of
        /\ \A i \in Derived : \A j \in BaseColumns : j < i

\* C24 as amended: the rows are in ascending order and the columns are in
\* ascending order of the period whose data they hold, a derived column
\* standing at the place of its extra period.
C24_ColumnsInPeriodOrder ==
    (/\ builder \in {"process_extra_periods", "build_csv_for_location_"}
     /\ x_pc = "done") =>
        /\ RowsAscending
        /\ \A i \in DOMAIN xdf : \A j \in DOMAIN xdf :
              i < j => xdf[i].of < xdf[j].of

\* process_extra_periods has derived the period 7 from the base period 5,
\* and its column stands before the one of the base period 10
C24_Witness ==
    /\ builder = "process_extra_periods"
    /\ x_pc = "done"
    /\ base_periods = <<5, 10>>
    /\ extra_periods = <<7>>
    /\ xindex = <<1, 2>>
    /\ \E i \in DOMAIN xdf :
          /\ i + 2 \in DOMAIN xdf
          /\ xdf[i].label = DaysLabel(5)
          /\ xdf[i + 1].label = TextLabel("extra days") /\ xdf[i + 1].of = 7
          /\ xdf[i + 2].label = DaysLabel(10)

\* the calls made so far
Called(name, days) == \E i \in DOMAIN calls : calls[i] = Call(name, days)

\* C25: a step that ends the run because an input of a period is missing
\* (sys.exit of step_2 without cars.json, of step_3 without catalog) does
\* so only after step_1 was called for every period of the list, and the
\* aggregation was called: the run never stops with a period unprocessed.
C25_MissingInputLocal ==
    w_pc = "exit" =>
        /\ \A d \in InputPeriods : Called("step_1", d)
        /\ Called("gen_output_file", 0)

\* C26: once the run has finished the steps of a period, the offer list,
\* the model names, the assignment list and the selection stored for that
\* period, and the column of the matrix built from it, come from the
\* scrape of this run only, whatever an earlier run had left there and
\* whatever this run's scrape found.
C26_RerunOverwrites ==
    \A d \in DiskPeriods :
        Called("step_5", d) =>
            /\ disk[d].cars = File({"new"})
            /\ disk[d].car_names = File({"new"})
            /\ disk[d].gruppi_sipp = File({"new"})
            /\ disk[d].selected # None /\ disk[d].selected[1].runs = {"new"}
            /\ \A i \in DOMAIN wcols : wcols[i].days = d => wcols[i].runs = {"new"}

\* the calls of a complete run: the four steps of every period in the
\* order of the list, then the aggregation
RECURSIVE StepsOf(_)
StepsOf(ps) ==
    IF ps = << >> THEN << >>
    ELSE <<Call("step_1", Head(ps)), Call("step_2", Head(ps)),
           Call("step_3", Head(ps)), Call("step_5", Head(ps))>> \o StepsOf(Tail(ps))

CompleteRun == Append(StepsOf(periods), Call("gen_output_file", 0))

\* C27: the calls run_workflow has made are, at any moment, the first
\* calls of the sequence step 1, step 2, step 3, step 5 of each period in
\* turn followed by one aggregation; a run that completes has made them
\* all, so the aggregation ran once, after step 5 of the last period.
C27_StepOrder ==
    /\ Len(calls) <= Len(CompleteRun)
    /\ \A i \in DOMAIN calls : calls[i] = CompleteRun[i]
    /\ w_pc = "done" => calls = CompleteRun

\* a run over the periods 7 and 3, in that order, has completed
C27_Witness ==
    /\ w_pc = "done"
    /\ periods = <<7, 3>>
    /\ Len(calls) = 9
    /\ calls[4] = Call("step_5", 7)
    /\ calls[5] = Call("step_1", 3)
    /\ calls[9] = Call("gen_output_file", 0)

(***************************************************************************)
(* Properties of the offer scrape.                                         *)
(***************************************************************************)
\* the attempts that ended, and the one that returned offers
OffersAt == {i \in DOMAIN outcomes : outcomes[i] = "offers"}

\* what is left of the scrape: the attempts not yet started, then the
\* turns left in the attempt under way
StepsLeft ==
    (max_attempts - attempt) * (NoResultReloads + 5)
    + (CASE s_pc = "page" -> 3 + (NoResultReloads - reloads)
         [] s_pc = "scrape" -> 2
         [] s_pc = "loop" -> 1
         [] s_pc = "write" -> 1
         [] OTHER -> 0)

\* C28: the scrape starts at most 5 attempts; an attempt that returned
\* offers is the last one; every step of the scrape, whatever the outcome
\* of the attempt, leaves strictly less to do, so the attempt loop ends;
\* and cars.json is written exactly when some attempt returned offers.
C28_BoundedRetry ==
    /\ [](/\ attempt <= max_attempts
          /\ Len(outcomes) <= attempt
          /\ \A i \in OffersAt : i = Len(outcomes) /\ attempt = Len(outcomes)
          /\ OffersAt # {} => s_pc \in {"write", "done"}
          /\ written => s_pc = "done"
          /\ s_pc = "done" => (written <=> OffersAt # {}))
    /\ [][StepsLeft' < StepsLeft]_vars

\* step_1_async has written cars.json after offers came at the fifth
\* attempt, the four before having ended with an exception, an empty
\* list, the 'no result' page and an empty list
C28_Witness ==
    /\ variant = "step_1_async"
    /\ s_pc = "done"
    /\ written
    /\ attempt = max_attempts
    /\ outcomes = <<"exception", "empty", "no result", "empty", "offers">>

\* the same list in another order
Reorderings(sq) == {[i \in DOMAIN sq |-> sq[f[i]]] : f \in Permutations(DOMAIN sq)}

\* two cells hold the same value
SameCell(a, b) ==
    IF a = None \/ b = None THEN a = b
    ELSE a[1][1] * b[1][2] = b[1][1] * a[1][2]

SameFrame(fa, fb) ==
    /\ Len(fa) = Len(fb)
    /\ \A i \in DOMAIN fa :
          /\ fa[i].label = fb[i].label
          /\ \A c \in SippCodes : SameCell(fa[i].cells[c], fb[i].cells[c])

\* C29: in the matrix process_extra_periods returns, the cell of every
\* extra period is the marginal computed from the input prices of the CSV,
\* the column of every base period holds its input prices, and the same
\* lists with the extra periods in another order give the same matrix.
C29_FromInputPrices ==
    (builder = "process_extra_periods" /\ x_pc = "done") =>
        /\ \A i \in DOMAIN xdf : \A c \in SippCodes :
              xdf[i].of \in ExtraSet =>
                  LET ep == xdf[i].of
                      prev == SetMax(Preceding(ep))
                  IN  IF prices[ep][c] = None \/ prices[prev][c] = None
                      THEN xdf[i].cells[c] = None
                      ELSE IsMarginal(xdf[i].cells[c], prices[ep][c],
                                      prices[prev][c], ep - prev)
        /\ \A i \in DOMAIN xdf :
              xdf[i].of \in BaseSet => xdf[i].cells = prices[xdf[i].of]
        /\ \A eps \in Reorderings(extra_periods) :
              LET other == ProcessExtraPeriods(prices, base_periods, eps)
              IN  other # None /\ SameFrame(other[1], xdf)

(***************************************************************************)
(* Properties of the two price rules.                                      *)
(***************************************************************************)
\* C30: from the same group_selected_details.json, build_csv_for_location
\* records a price for a category exactly when gen_output_file records
\* one, and the two prices are equal.
C30_SamePriceRule ==
    r_pc = "done" =>
        /\ DOMAIN ui_rows[1] = DOMAIN gen_rows[1]
        /\ \A c \in DOMAIN gen_rows[1] : ui_rows[1][c] = gen_rows[1][c]

====
